---- MODULE Spec2Model ----
(***************************************************************************)
(* Authentication and session lifecycle of labyrinth-nexus-api:            *)
(* AuthService (login, refreshToken, logout, logoutAll, revokeSession),    *)
(* SessionService (the session store) and the lockout bookkeeping of       *)
(* validateUser / handleFailedLogin.                                       *)
(*                                                                         *)
(* Every request handler runs as an async function: it is atomic between   *)
(* two awaited store calls and interleaves with other requests at each     *)
(* await.  A handler is therefore modelled as a chain of steps, one per    *)
(* awaited store call, executed by a request slot p \in Procs.             *)
(* Time is counted in seconds.                                             *)
(***************************************************************************)
EXTENDS Integers, Sequences, FiniteSets, TLC

VARIABLES
    config,     \* the environment read through ConfigService, fixed at start
    now,        \* the clock read by new Date() / Date.now(), in seconds
    ticks,      \* number of clock advances so far (bounded)
    users,      \* the user table: id -> row
    sessions,   \* the session table: id -> row
    nextId,     \* next autoincrement id of the session table
    call,       \* per request slot: the handler in flight and its locals
    issued,     \* history: refresh tokens handed out to callers
    accepted,   \* history: per refresh token, how often refreshToken accepted it
    revokedEver,\* history: ids of the sessions that have been marked revoked
    failsSeen,  \* history: per user, wrong-password attempts processed
    streak,     \* history: per user, wrong-password attempts since the last reset
    resetBefore,\* history: ids of the sessions whose refresh token was issued
                \* before a completed resetPassword of its owner
    last        \* history: the step just taken and its outcome

vars == <<config, now, ticks, users, sessions, nextId, call, issued, accepted,
          revokedEver, failsSeen, streak, resetBefore, last>>

-----------------------------------------------------------------------------
(* Bounds of the model *)

MaxSessions == 2        \* session rows ever created (Spec, SpecStore, SpecCleanup, ...)
MaxLockSessions == 1    \* session rows ever created (SpecLockout, SpecSeq, SpecAccess)
MaxRaceSessions == 3    \* session rows ever created (SpecRace, SpecFault)
MaxTicks == 1           \* clock advances (Spec, SpecStore, SpecExpiry, SpecCleanup, SpecReset)
MaxLockTicks == 2       \* clock advances (SpecLockout, SpecSeq, SpecAccess)
MaxFails == 6           \* wrong-password attempts per account

Procs == {"p1", "p2"}
UserIds == {"u1", "u2"}

-----------------------------------------------------------------------------
(* Program constants *)

NULL == -1

\* auth.service.ts: const lockDuration = 15 * 60 * 1000 (ms), here in seconds
lockDuration == 15 * 60
maxAttempts == 5
\* generateTokens: expiresAt.setDate(expiresAt.getDate() + 7)
sessionDays == 7
\* configService.get("JWT_REFRESH_EXPIRY_DAYS", 7): the default
JWT_REFRESH_EXPIRY_DAYS == 7
\* configService.get("JWT_ACCESS_EXPIRY_MINS", 15)
JWT_ACCESS_EXPIRY_MINS == 15
\* requestPasswordReset: resetTokenExpiry.setHours(getHours() + 1)
resetTokenSecs == 60 * 60
\* SessionCleanupTask: cleanupRevokedSessions(30)
retentionDays == 30
DaySecs == 24 * 60 * 60

\* Outcomes of the handlers: the exception kind and message, or "OK"
OK == "OK"
PENDING == "pending"
ErrInvalidEmail == "BadRequest: Invalid email format"
ErrPasswordRequired == "BadRequest: Password is required"
ErrInvalidCredentials == "Unauthorized: Invalid credentials"
ErrInactive == "Unauthorized: Account is inactive"
ErrLocked == "Unauthorized: Account is temporarily locked"
ErrInvalidRefresh == "Unauthorized: Invalid refresh token"
ErrReuse == "Unauthorized: Token reuse detected. All sessions have been revoked for security."
ErrExpired == "Unauthorized: Refresh token expired"
ErrSessionNotFound == "Unauthorized: Session not found"
ErrStore == "PrismaClientKnownRequestError"
ErrConflict == "Conflict: User with this email already exists"
ErrResetToken == "Unauthorized: Invalid or expired reset token"
ErrAccessToken == "Unauthorized: Invalid or expired token"
ErrNoEmail == "Unauthorized: No email provided by Google. Please ensure email permissions are granted."

-----------------------------------------------------------------------------
(* Strings are sequences of one-character strings *)

EmailA == <<"a", "@", "x", ".", "y">>
EmailAUpper == <<"A", "@", "x", ".", "y">>
EmailB == <<"b", "@", "x", ".", "y">>
EmailNobody == <<"c", "@", "x", ".", "y">>
EmailMalformed == <<"a", "x">>
EmailNobodyUpper == <<"C", "@", "x", ".", "y">>
EmailAPadded == <<" ", "a", "@", "x", ".", "y">>
Emails == {EmailA, EmailAUpper, EmailB, EmailNobody, EmailMalformed}

PwP == <<"p">>
PwQ == <<"q">>
PwEmpty == <<>>
PwBlank == <<" ">>
Passwords == {PwP, PwQ, PwEmpty, PwBlank}

IsSpace(c) == c = " "

toLowerCaseChar(c) ==
    IF c = "A" THEN "a" ELSE IF c = "B" THEN "b" ELSE IF c = "C" THEN "c" ELSE c

toLowerCase(s) == [i \in 1..Len(s) |-> toLowerCaseChar(s[i])]

RECURSIVE trimStart(_)
trimStart(s) == IF s # <<>> /\ IsSpace(Head(s)) THEN trimStart(Tail(s)) ELSE s

RECURSIVE trimEnd(_)
trimEnd(s) ==
    IF s # <<>> /\ IsSpace(s[Len(s)]) THEN trimEnd(SubSeq(s, 1, Len(s) - 1)) ELSE s

trim(s) == trimEnd(trimStart(s))

\* /^[^\s@]+@[^\s@]+\.[^\s@]+$/ : no whitespace, exactly one "@" with a
\* non-empty local part, and a "." after it with at least one character on
\* each side
isValidEmail(email) ==
    /\ \A i \in 1..Len(email) : ~IsSpace(email[i])
    /\ Cardinality({i \in 1..Len(email) : email[i] = "@"}) = 1
    /\ \E i \in 2..Len(email) :
          /\ email[i] = "@"
          /\ \E j \in (i + 2)..(Len(email) - 1) : email[j] = "."

\* bcrypt.hash / bcrypt.compare: compare succeeds exactly on the hashed password
bcryptHash(password) == <<"bcrypt", password>>
bcryptCompare(password, hash) == hash = bcryptHash(password)

\* crypto.createHash('sha256').update(token).digest('hex'): deterministic, collision free
hashToken(token) == <<"sha256", token>>

\* Prisma update: the fields of data replace those of the row
Merge(row, data) == [f \in DOMAIN row |-> IF f \in DOMAIN data THEN data[f] ELSE row[f]]

-----------------------------------------------------------------------------
(* Store queries *)

\* prisma.user.findUnique({ where: { email } })
findByEmail(email) ==
    IF \E u \in DOMAIN users : users[u].email = email
    THEN LET u == CHOOSE v \in DOMAIN users : users[v].email = email
         IN  [id |-> u] @@ users[u]
    ELSE [id |-> "none"]

\* prisma.session.findUnique({ where: { refreshTokenHash } }), user joined
findByRefreshTokenHash(tokenHash) ==
    IF \E s \in DOMAIN sessions : sessions[s].refreshTokenHash = tokenHash
    THEN LET s == CHOOSE t \in DOMAIN sessions : sessions[t].refreshTokenHash = tokenHash
         IN  [id |-> s, user |-> users[sessions[s].userId]] @@ sessions[s]
    ELSE [id |-> NULL]

\* prisma.session.findUnique({ where: { id } })
findById(id) ==
    IF id \in DOMAIN sessions THEN [id |-> id] @@ sessions[id] ELSE [id |-> NULL]

-----------------------------------------------------------------------------
(* Request slots *)

NoUser == [id |-> "none"]
NoSession == [id |-> NULL]
NoToken == [sessionId |-> NULL]

\* late, before and swept are history: whether the presented refresh token
\* had already been accepted or revoked when the call looked it up, the
\* isRevoked value the rotation's UPDATE overwrote, and whether, since the
\* call read its session, a revokeAllUserSessions of the owner has completed
\* with no login, registration or OAuth login of the owner after it
Idle == [op |-> "none", pc |-> "idle", user |-> NoUser, token |-> NoToken,
         session |-> NoSession, prev |-> NULL, late |-> FALSE, before |-> FALSE,
         swept |-> FALSE]

\* history: the refreshToken calls in flight for sessions of userId have seen
\* a revokeAllUserSessions(userId) complete
Sweep(c, userId) ==
    [q \in Procs |-> IF c[q].op = "refresh" /\ c[q].user.id = userId
                     THEN [c[q] EXCEPT !.swept = TRUE] ELSE c[q]]

\* history: userId has logged in again
Unsweep(c, userId) ==
    [q \in Procs |-> IF c[q].op = "refresh" /\ c[q].user.id = userId
                     THEN [c[q] EXCEPT !.swept = FALSE] ELSE c[q]]

Ev(act, op, p, out, user, tok, n) ==
    [act |-> act, op |-> op, out |-> out, user |-> user, token |-> tok, count |-> n]

\* calls in flight that will create a session row
Creators ==
    {p \in Procs : call[p].pc \in {"login_reset", "gen_create", "refresh_tx_revoke",
                                    "oauth_update", "reg_create"}}

\* a further call may start only while the table has room for its row
Room(n) == nextId + Cardinality(Creators) <= n

\* the configuration of a deployment that sets no JWT_REFRESH_EXPIRY_DAYS
DefaultConfig == [JWT_REFRESH_EXPIRY_DAYS |-> JWT_REFRESH_EXPIRY_DAYS]

\* deployments with JWT_REFRESH_EXPIRY_DAYS shorter than, equal to and longer
\* than the 7 days of the stored expiresAt
ExpiryConfigs == {[JWT_REFRESH_EXPIRY_DAYS |-> d] : d \in {1, 7, 60}}

\* the tables and the request slots after start-up
InitState ==
    /\ now = 0
    /\ ticks = 0
    /\ users = [u \in UserIds |->
                 [email |-> IF u = "u1" THEN EmailA ELSE EmailB,
                  passwordHash |-> bcryptHash(PwP),
                  isActive |-> TRUE,
                  failedLoginAttempts |-> 0,
                  lockedUntil |-> NULL,
                  lastLoginAt |-> NULL,
                  passwordResetToken |-> NULL,
                  passwordResetExpiry |-> NULL,
                  passwordChangedAt |-> NULL]]
    /\ sessions = <<>>
    /\ nextId = 1
    /\ call = [p \in Procs |-> Idle]
    /\ issued = {}
    /\ accepted = <<>>
    /\ revokedEver = {}
    /\ failsSeen = [u \in UserIds |-> 0]
    /\ streak = [u \in UserIds |-> 0]
    /\ resetBefore = {}
    /\ last = Ev("Init", "none", "none", OK, "none", NULL, 0)

Init ==
    /\ config = DefaultConfig
    /\ InitState

InitExpiry ==
    /\ config \in ExpiryConfigs
    /\ InitState

-----------------------------------------------------------------------------
(* Clock *)

Tick(d) ==
    /\ now' = now + d
    /\ ticks' = ticks + 1
    /\ last' = Ev("Tick", "none", "none", OK, "none", NULL, d)
    /\ UNCHANGED <<config, resetBefore, users, sessions, nextId, call, issued, accepted, revokedEver,
                   failsSeen, streak>>

TickSecond == Tick(1)
TickLock == Tick(lockDuration)
TickWeek == Tick(sessionDays * DaySecs)
TickMonth == Tick((retentionDays + 1) * DaySecs)
TickHour == Tick(resetTokenSecs)

-----------------------------------------------------------------------------
(* AuthService.validateUser / handleFailedLogin / login *)

isLocked(user, t) == user.lockedUntil # NULL /\ user.lockedUntil > t

\* validateUser with the lock check placed after the password comparison
validateUser_lockAfterCompare(email, password, user, t) ==
    IF ~isValidEmail(email) THEN ErrInvalidEmail
    ELSE IF password = <<>> \/ Len(trim(password)) = 0 THEN ErrPasswordRequired
    ELSE IF user.id = "none" THEN ErrInvalidCredentials
    ELSE IF ~user.isActive THEN ErrInactive
    ELSE IF bcryptCompare(password, user.passwordHash) THEN "login_reset"
    ELSE IF isLocked(user, t) THEN ErrLocked
    ELSE "login_fail"

\* validateUser with a message of its own for an unknown email
validateUser_userNotFound(email, password, user, t) ==
    IF ~isValidEmail(email) THEN ErrInvalidEmail
    ELSE IF password = <<>> \/ Len(trim(password)) = 0 THEN ErrPasswordRequired
    ELSE IF user.id = "none" THEN "Unauthorized: User not found"
    ELSE IF ~user.isActive THEN ErrInactive
    ELSE IF isLocked(user, t) THEN ErrLocked
    ELSE IF ~bcryptCompare(password, user.passwordHash) THEN "login_fail"
    ELSE "login_reset"

\* validateUser counting a wrong password against a locked account
validateUser_lockedCounts(email, password, user, t) ==
    IF ~isValidEmail(email) THEN ErrInvalidEmail
    ELSE IF password = <<>> \/ Len(trim(password)) = 0 THEN ErrPasswordRequired
    ELSE IF user.id = "none" THEN ErrInvalidCredentials
    ELSE IF ~user.isActive THEN ErrInactive
    ELSE IF ~bcryptCompare(password, user.passwordHash) THEN "login_fail"
    ELSE IF isLocked(user, t) THEN ErrLocked
    ELSE "login_reset"

\* validateUser up to and including bcrypt.compare: the exception thrown, or
\* the step that follows
validateUser(email, password, user, t) ==
    IF ~isValidEmail(email) THEN ErrInvalidEmail
    ELSE IF password = <<>> \/ Len(trim(password)) = 0 THEN ErrPasswordRequired
    ELSE IF user.id = "none" THEN ErrInvalidCredentials
    ELSE IF ~user.isActive THEN ErrInactive
    ELSE IF isLocked(user, t) THEN ErrLocked
    ELSE IF ~bcryptCompare(password, user.passwordHash) THEN "login_fail"
    ELSE "login_reset"

\* handleFailedLogin locking one attempt late
handleFailedLogin_offByOne(user, t) ==
    LET attempts == user.failedLoginAttempts + 1
    IN  IF attempts > maxAttempts
        THEN [failedLoginAttempts |-> attempts, lockedUntil |-> t + lockDuration]
        ELSE [failedLoginAttempts |-> attempts]

\* handleFailedLogin counting from one again once a lock has been served
handleFailedLogin_restartsAfterExpiry(user, t) ==
    LET attempts == IF user.failedLoginAttempts >= maxAttempts
                    THEN 1
                    ELSE user.failedLoginAttempts + 1
    IN  IF attempts >= maxAttempts
        THEN [failedLoginAttempts |-> attempts, lockedUntil |-> t + lockDuration]
        ELSE [failedLoginAttempts |-> attempts]

\* the data handleFailedLogin passes to userService.update
handleFailedLogin(user, t) ==
    LET attempts == user.failedLoginAttempts + 1
    IN  IF attempts >= maxAttempts
        THEN [failedLoginAttempts |-> attempts, lockedUntil |-> t + lockDuration]
        ELSE [failedLoginAttempts |-> attempts]

\* a reset that leaves the lock in place
resetOnSuccess_keepsLock(t) ==
    [failedLoginAttempts |-> 0, lastLoginAt |-> t]

\* the data validateUser passes to userService.update after a valid password
resetOnSuccess(t) ==
    [failedLoginAttempts |-> 0, lockedUntil |-> NULL, lastLoginAt |-> t]

\* of the row validateUser read, the fields it uses after the next await
Kept(user) == [id |-> user.id, failedLoginAttempts |-> user.failedLoginAttempts]

\* wrong-password attempts on account u processed or in flight
FailsStarted(u) ==
    failsSeen[u] + Cardinality({q \in Procs : call[q].pc = "login_fail" /\ call[q].user.id = u})

\* a validateUser that looks the account up before it checks its input
validateUserReads_findFirst(email, password) == {"user.findUnique"}

\* the store reads validateUser makes: none when it throws on its input
validateUserReads(email, password) ==
    IF ~isValidEmail(email) \/ password = <<>> \/ Len(trim(password)) = 0
    THEN {}
    ELSE {"user.findUnique"}

\* login -> validateUser: input checks, findByEmail, state checks, compare
LoginFind(p, email, password) ==
    /\ call[p] = Idle
    /\ LET reads == validateUserReads(email, password)
           user == IF reads # {}
                   THEN findByEmail(trim(toLowerCase(email)))
                   ELSE NoUser
           r == validateUser(email, password, user, now)
           pwOk == user.id # "none" /\ bcryptCompare(password, user.passwordHash)
           valid == isValidEmail(email) /\ ~(password = <<>> \/ Len(trim(password)) = 0)
       IN  /\ r = "login_fail" => FailsStarted(user.id) < MaxFails
           /\ IF r \in {"login_fail", "login_reset"}
              THEN /\ call' = [call EXCEPT ![p] =
                          [Idle EXCEPT !.op = "login", !.pc = r, !.user = Kept(user)]]
                   /\ last' = [pwOk |-> pwOk, valid |-> valid, reads |-> reads] @@
                              Ev("LoginFind", "login", p, PENDING, user.id, NULL, 0)
              ELSE /\ call' = call
                   /\ last' = [pwOk |-> pwOk, valid |-> valid, reads |-> reads] @@
                              Ev("LoginFind", "login", p, r, user.id, NULL, 0)
    /\ UNCHANGED <<config, resetBefore, now, ticks, users, sessions, nextId, issued, accepted,
                   revokedEver, failsSeen, streak>>

\* validateUser -> handleFailedLogin -> userService.update; login then throws
LoginFail(p) ==
    /\ call[p].pc = "login_fail"
    /\ LET u == call[p].user.id
       IN  /\ users' = [users EXCEPT ![u] = Merge(@, handleFailedLogin(call[p].user, now))]
           /\ failsSeen' = [failsSeen EXCEPT ![u] = @ + 1]
           /\ streak' = [streak EXCEPT ![u] = @ + 1]
           /\ last' = Ev("LoginFail", "login", p, ErrInvalidCredentials, u, NULL, 0)
    /\ call' = [call EXCEPT ![p] = Idle]
    /\ UNCHANGED <<config, resetBefore, now, ticks, sessions, nextId, issued, accepted, revokedEver>>

\* validateUser, valid password: userService.update(reset), then generateTokens
LoginReset(p) ==
    /\ call[p].pc = "login_reset"
    /\ LET u == call[p].user.id
       IN  /\ users' = [users EXCEPT ![u] = Merge(@, resetOnSuccess(now))]
           /\ streak' = [streak EXCEPT ![u] = 0]
           /\ last' = Ev("LoginReset", "login", p, PENDING, u, NULL,
                         users[u].failedLoginAttempts)
    /\ call' = [call EXCEPT ![p].pc = "gen_create"]
    /\ UNCHANGED <<config, resetBefore, now, ticks, sessions, nextId, issued, accepted, revokedEver,
                   failsSeen>>

-----------------------------------------------------------------------------
(* AuthService.register *)

NewUserIds == {"u3", "u4"}

\* a register that looks up and stores the address as it was typed
registerEmail_raw(email) == email

\* registerDto.email.toLowerCase().trim()
registerEmail(email) == trim(toLowerCase(email))

\* the store reads register makes before it creates: none when the format
\* check throws
registerReads(email) == IF ~isValidEmail(email) THEN {} ELSE {"user.findUnique"}

\* the row prisma.user.create inserts; the other columns take their defaults
createdUser(email, passwordHash, isActive) ==
    [email |-> email,
     passwordHash |-> passwordHash,
     isActive |-> isActive,
     failedLoginAttempts |-> 0,
     lockedUntil |-> NULL,
     lastLoginAt |-> NULL,
     passwordResetToken |-> NULL,
     passwordResetExpiry |-> NULL,
     passwordChangedAt |-> NULL]

\* register: the format check, findByEmail, the conflict check, the lookup of
\* the seeded role USER, bcrypt.hash
RegisterFind(p, email, password) ==
    /\ call[p] = Idle
    /\ LET reads == registerReads(email)
           existingUser == IF reads # {} THEN findByEmail(registerEmail(email)) ELSE NoUser
           ev(out, user) == [reads |-> reads, email |-> email] @@
                            Ev("RegisterFind", "register", p, out, user, NULL, 0)
       IN  IF ~isValidEmail(email)
           THEN /\ call' = call
                /\ last' = ev(ErrInvalidEmail, "none")
           ELSE IF existingUser.id # "none"
           THEN /\ call' = call
                /\ last' = ev(ErrConflict, existingUser.id)
           ELSE /\ call' = [call EXCEPT ![p] =
                       [Idle EXCEPT !.op = "register", !.pc = "reg_create",
                                    !.user = [id |-> "none",
                                              email |-> registerEmail(email),
                                              passwordHash |-> bcryptHash(password)]]]
                /\ last' = ev(PENDING, "none")
    /\ UNCHANGED <<config, resetBefore, now, ticks, users, sessions, nextId, issued, accepted,
                   revokedEver, failsSeen, streak>>

\* prisma.user.create: email is a unique column (findUnique selects by it), so
\* the insert of a second row with the address throws; the column default of
\* isActive is not in the source
RegisterCreate(p) ==
    /\ call[p].pc = "reg_create"
    /\ LET email == call[p].user.email
       IN  IF \E u \in DOMAIN users : users[u].email = email
           THEN /\ users' = users
                /\ call' = [call EXCEPT ![p] = Idle]
                /\ last' = [email |-> email] @@
                           Ev("RegisterCreate", "register", p, ErrStore, "none", NULL, 0)
           ELSE /\ NewUserIds \ DOMAIN users # {}
                /\ LET id == CHOOSE i \in NewUserIds : i \notin DOMAIN users
                   IN  \E isActive \in BOOLEAN :
                          /\ users' = (id :> createdUser(email, call[p].user.passwordHash,
                                                         isActive)) @@ users
                          /\ call' = [call EXCEPT ![p].pc = "gen_create",
                                                  ![p].user = [id |-> id]]
                          /\ last' = [email |-> email] @@
                                     Ev("RegisterCreate", "register", p, PENDING, id, NULL, 0)
    /\ UNCHANGED <<config, resetBefore, now, ticks, sessions, nextId, issued, accepted, revokedEver,
                   failsSeen, streak>>

-----------------------------------------------------------------------------
(* AuthService.generateTokens / SessionService.create *)

\* the refresh JWT: payload and signature
signRefresh(userId, sessionId, t) ==
    [sub |-> userId, sessionId |-> sessionId, type |-> "refresh",
     exp |-> t + config.JWT_REFRESH_EXPIRY_DAYS * DaySecs, sig |-> "valid"]

\* jwtService.verify: signature and expiry
jwtVerify(token, t) == token.sig = "valid" /\ t < token.exp

\* a create that does not record the predecessor
newSession_dropsPrevious(userId, token, previousSessionId, t) ==
    [userId |-> userId,
     sessionId |-> token.sessionId,
     refreshTokenHash |-> hashToken(token),
     expiresAt |-> t + sessionDays * DaySecs,
     isRevoked |-> FALSE,
     previousSessionId |-> NULL,
     createdAt |-> t,
     updatedAt |-> t,
     lastUsedAt |-> t]

\* the row prisma.session.create inserts
newSession(userId, token, previousSessionId, t) ==
    [userId |-> userId,
     sessionId |-> token.sessionId,
     refreshTokenHash |-> hashToken(token),
     expiresAt |-> t + sessionDays * DaySecs,
     isRevoked |-> FALSE,
     previousSessionId |-> previousSessionId,
     createdAt |-> t,
     updatedAt |-> t,
     lastUsedAt |-> t]

\* validateUser and register: const { passwordHash, ...safeUser } = user
safeUser(user) == [f \in DOMAIN user \ {"passwordHash"} |-> user[f]]

\* refreshToken: session.user, read with safeUserSelect (passwordHash: false)
safeUserSelect(user) == [f \in DOMAIN user \ {"passwordHash"} |-> user[f]]

\* handleOAuthLogin: const { userRoles, ...userWithoutRoles } = user, on the row
\* prisma.user.update / create returned with every column
oauthSafeUser(user) == [f \in DOMAIN user \ {"userRoles"} |-> user[f]]

\* the user object each operation hands to generateTokens, which returns it
returnedUser(op, user) ==
    IF op = "oauth" THEN oauthSafeUser(user)
    ELSE IF op = "refresh" THEN safeUserSelect(user)
    ELSE safeUser(user)

\* generateTokens: sign both tokens, sessionService.create, return the pair
\* a create that keeps one session per user: it revokes the user's others
createSession_singleSession(tbl, id, row) ==
    (id :> row) @@
    [s \in DOMAIN tbl |->
        IF tbl[s].userId = row.userId THEN Merge(tbl[s], [isRevoked |-> TRUE]) ELSE tbl[s]]

\* prisma.session.create({ data: dto }): one row added, no other row touched
createSession(tbl, id, row) == (id :> row) @@ tbl

CreateSession(p) ==
    /\ call[p].pc = "gen_create"
    /\ LET u == call[p].user.id
           token == signRefresh(u, nextId, now)
       IN  /\ sessions' = createSession(sessions, nextId,
                                        newSession(u, token, call[p].prev, now))
           /\ issued' = issued \cup {token}
           /\ accepted' = IF call[p].op = "refresh"
                          THEN LET old == call[p].token.sessionId
                               IN  (old :> (IF old \in DOMAIN accepted
                                            THEN accepted[old] + 1 ELSE 1)) @@ accepted
                          ELSE accepted
           /\ last' = [late |-> call[p].late, swept |-> call[p].swept,
                       returned |-> DOMAIN returnedUser(call[p].op, users[u])] @@
                      Ev("CreateSession", call[p].op, p, OK, u, nextId, 0)
           /\ call' = IF call[p].op = "refresh"
                      THEN [call EXCEPT ![p] = Idle]
                      ELSE Unsweep([call EXCEPT ![p] = Idle], u)
    /\ nextId' = nextId + 1
    /\ UNCHANGED <<config, resetBefore, now, ticks, users, revokedEver, failsSeen, streak>>

\* sessionService.create rejects (store error): generateTokens throws and no
\* row is inserted.  In refreshToken the callback of prisma.$transaction throws,
\* but sessionService.revokeSession ran on this.prisma, not on the tx client,
\* so there is nothing for the rollback to undo.
CreateSessionFail(p) ==
    /\ call[p].pc = "gen_create"
    /\ last' = [before |-> call[p].before] @@
               Ev("CreateSessionFail", call[p].op, p, ErrStore, call[p].user.id,
                  call[p].prev, 0)
    /\ call' = [call EXCEPT ![p] = Idle]
    /\ UNCHANGED <<config, resetBefore, now, ticks, users, sessions, nextId, issued, accepted,
                   revokedEver, failsSeen, streak>>

-----------------------------------------------------------------------------
(* Access tokens: generateTokens, JwtStrategy, AuthService.validateUserById *)

\* the access JWT: payload and signature
signAccess(userId, t) ==
    [sub |-> userId, exp |-> t + JWT_ACCESS_EXPIRY_MINS * 60, sig |-> "valid"]

\* the access token generateTokens signed in the call that signed this refresh
\* token
accessOf(refresh) ==
    signAccess(refresh.sub, refresh.exp - config.JWT_REFRESH_EXPIRY_DAYS * DaySecs)

AccessIssued == {accessOf(r) : r \in issued}

ForgedAccess == [sub |-> "u1", exp |-> 100 * DaySecs, sig |-> "forged"]

\* a JwtStrategy that also asks for a live session of the subject
validateAccess_checksSession(token, t) ==
    IF ~jwtVerify(token, t) THEN ErrAccessToken
    ELSE IF token.sub \notin DOMAIN users THEN ErrAccessToken
    ELSE IF ~users[token.sub].isActive THEN ErrInactive
    ELSE IF ~\E s \in DOMAIN sessions :
               sessions[s].userId = token.sub /\ ~sessions[s].isRevoked
    THEN ErrAccessToken
    ELSE OK

\* passport-jwt (signature, expiry), then JwtStrategy.validate ->
\* validateUserById(payload.sub)
validateAccess(token, t) ==
    IF ~jwtVerify(token, t) THEN ErrAccessToken
    ELSE IF token.sub \notin DOMAIN users THEN ErrAccessToken
    ELSE IF ~users[token.sub].isActive THEN ErrInactive
    ELSE OK

\* a request with a bearer token passes JwtAuthGuard
ValidateAccess(token) ==
    /\ last' = [access |-> token] @@
               Ev("ValidateAccess", "access", "none", validateAccess(token, now),
                  token.sub, NULL, 0)
    /\ UNCHANGED <<config, resetBefore, now, ticks, users, sessions, nextId, call, issued, accepted,
                   revokedEver, failsSeen, streak>>

-----------------------------------------------------------------------------
(* SessionService: updates and deletes of the session table *)

\* an update that touches the row without revoking it
revokeData_touchOnly(t) == [updatedAt |-> t]

\* the data of the two revoking updates
revokeData(t) == [isRevoked |-> TRUE, updatedAt |-> t]

\* an update that matches on the owner of the row
revokeSession_wholeUser(tbl, id, t) ==
    [s \in DOMAIN tbl |->
        IF tbl[s].userId = tbl[id].userId THEN Merge(tbl[s], revokeData(t)) ELSE tbl[s]]

\* prisma.session.update({ where: { id }, data: { isRevoked: true, updatedAt } })
revokeSession(tbl, id, t) == [tbl EXCEPT ![id] = Merge(@, revokeData(t))]

\* prisma.session.updateMany({ where: { userId, isRevoked: false }, data })
revokeAllMatches(tbl, userId) ==
    {s \in DOMAIN tbl : tbl[s].userId = userId /\ ~tbl[s].isRevoked}

\* updateMany without the userId filter
revokeAllUserSessions_anyOwner(tbl, userId, t) ==
    [s \in DOMAIN tbl |->
        IF ~tbl[s].isRevoked THEN Merge(tbl[s], revokeData(t)) ELSE tbl[s]]

\* updateMany that also filters on expiresAt, as findActiveByUserId does
revokeAllUserSessions_liveOnly(tbl, userId, t) ==
    [s \in DOMAIN tbl |->
        IF s \in revokeAllMatches(tbl, userId) /\ tbl[s].expiresAt > t
        THEN Merge(tbl[s], revokeData(t)) ELSE tbl[s]]

revokeAllUserSessions(tbl, userId, t) ==
    [s \in DOMAIN tbl |->
        IF s \in revokeAllMatches(tbl, userId) THEN Merge(tbl[s], revokeData(t)) ELSE tbl[s]]

\* an update that writes the whole "touched" state of the row
updateLastUsedData_resets(t) == [lastUsedAt |-> t, isRevoked |-> FALSE]

updateLastUsedData(t) == [lastUsedAt |-> t]

\* prisma.session.delete({ where: { id } })
deleteSession(tbl, id) == [s \in DOMAIN tbl \ {id} |-> tbl[s]]

\* deleteMany with lte in place of lt
cleanupExpiredSessions_lte(tbl, t) ==
    [s \in {x \in DOMAIN tbl : ~(tbl[x].expiresAt <= t)} |-> tbl[s]]

\* prisma.session.deleteMany({ where: { expiresAt: { lt: now } } })
cleanupExpiredSessions(tbl, t) ==
    [s \in {x \in DOMAIN tbl : ~(tbl[x].expiresAt < t)} |-> tbl[s]]

\* deleteMany without the updatedAt filter
cleanupRevokedSessions_ignoresWindow(tbl, daysOld, t) ==
    [s \in {x \in DOMAIN tbl : ~tbl[x].isRevoked} |-> tbl[s]]

\* prisma.session.deleteMany({ where: { isRevoked: true, updatedAt: { lt: cutoff } } })
cleanupRevokedSessions(tbl, daysOld, t) ==
    LET cutoffDate == t - daysOld * DaySecs
    IN  [s \in {x \in DOMAIN tbl : ~(tbl[x].isRevoked /\ tbl[x].updatedAt < cutoffDate)}
            |-> tbl[s]]

\* the history of revocations follows every write to the table
Track(tbl) == revokedEver \cup {s \in DOMAIN tbl : tbl[s].isRevoked}

-----------------------------------------------------------------------------
(* AuthService.refreshToken *)

ForgedToken == [sub |-> "u1", sessionId |-> 0, type |-> "refresh",
                exp |-> 100 * DaySecs, sig |-> "forged"]

\* refreshToken without the reuse-detection branch
refreshCheck_noReuse(session, token, t) ==
    IF session.id = NULL THEN ErrInvalidRefresh
    ELSE IF session.expiresAt < t THEN ErrExpired
    ELSE IF ~session.user.isActive THEN ErrInactive
    ELSE IF ~jwtVerify(token, t) THEN "refresh_bad_jwt"
    ELSE "refresh_tx_revoke"

\* refreshToken without the check of the owner's isActive
refreshCheck_noActive(session, token, t) ==
    IF session.id = NULL THEN ErrInvalidRefresh
    ELSE IF session.isRevoked THEN "refresh_reuse"
    ELSE IF session.expiresAt < t THEN ErrExpired
    ELSE IF ~jwtVerify(token, t) THEN "refresh_bad_jwt"
    ELSE "refresh_tx_revoke"

\* refreshToken that answers a failed jwtService.verify without revoking
refreshCheck_noFailClosed(session, token, t) ==
    IF session.id = NULL THEN ErrInvalidRefresh
    ELSE IF session.isRevoked THEN "refresh_reuse"
    ELSE IF session.expiresAt < t THEN ErrExpired
    ELSE IF ~session.user.isActive THEN ErrInactive
    ELSE IF ~jwtVerify(token, t) THEN ErrInvalidRefresh
    ELSE "refresh_tx_revoke"

\* refreshToken without the check of the stored expiresAt
refreshCheck_noExpiry(session, token, t) ==
    IF session.id = NULL THEN ErrInvalidRefresh
    ELSE IF session.isRevoked THEN "refresh_reuse"
    ELSE IF ~session.user.isActive THEN ErrInactive
    ELSE IF ~jwtVerify(token, t) THEN "refresh_bad_jwt"
    ELSE "refresh_tx_revoke"

\* refreshToken that revokes the session it finds expired
refreshCheck_expiredRevokes(session, token, t) ==
    IF session.id = NULL THEN ErrInvalidRefresh
    ELSE IF session.isRevoked THEN "refresh_reuse"
    ELSE IF session.expiresAt < t THEN "refresh_bad_jwt"
    ELSE IF ~session.user.isActive THEN ErrInactive
    ELSE IF ~jwtVerify(token, t) THEN "refresh_bad_jwt"
    ELSE "refresh_tx_revoke"

\* refreshToken that refuses while the owner's lock is in force
refreshCheck_locked(session, token, t) ==
    IF session.id = NULL THEN ErrInvalidRefresh
    ELSE IF session.isRevoked THEN "refresh_reuse"
    ELSE IF session.expiresAt < t THEN ErrExpired
    ELSE IF ~session.user.isActive THEN ErrInactive
    ELSE IF isLocked(session.user, t) THEN ErrLocked
    ELSE IF ~jwtVerify(token, t) THEN "refresh_bad_jwt"
    ELSE "refresh_tx_revoke"

\* refreshToken from the lookup to jwtService.verify: the exception thrown, or
\* the step that follows
refreshCheck(session, token, t) ==
    IF session.id = NULL THEN ErrInvalidRefresh
    ELSE IF session.isRevoked THEN "refresh_reuse"
    ELSE IF session.expiresAt < t THEN ErrExpired
    ELSE IF ~session.user.isActive THEN ErrInactive
    ELSE IF ~jwtVerify(token, t) THEN "refresh_bad_jwt"
    ELSE "refresh_tx_revoke"

\* of the row a handler read, the fields it uses after the next await
KeptSession(session) == [id |-> session.id, userId |-> session.userId]

RefreshFind(p, token) ==
    /\ call[p] = Idle
    /\ LET session == findByRefreshTokenHash(hashToken(token))
           r == refreshCheck(session, token, now)
           late == token.sessionId \in DOMAIN accepted \/ token.sessionId \in revokedEver
           owner == IF session.id = NULL THEN "none" ELSE session.userId
       IN  IF r \in {"refresh_reuse", "refresh_bad_jwt", "refresh_tx_revoke"}
           THEN /\ call' = [call EXCEPT ![p] =
                       [Idle EXCEPT !.op = "refresh", !.pc = r, !.token = token,
                                    !.session = KeptSession(session), !.late = late,
                                    !.user = [id |-> session.userId]]]
                /\ last' = [late |-> late] @@
                           Ev("RefreshFind", "refresh", p, PENDING, owner, token.sessionId, 0)
           ELSE /\ call' = call
                /\ last' = [late |-> late] @@
                           Ev("RefreshFind", "refresh", p, r, owner, token.sessionId, 0)
    /\ UNCHANGED <<config, resetBefore, now, ticks, users, sessions, nextId, issued, accepted,
                   revokedEver, failsSeen, streak>>

\* reuse detection: revokeAllUserSessions(session.userId), then throw
RefreshReuse(p) ==
    /\ call[p].pc = "refresh_reuse"
    /\ LET u == call[p].session.userId
       IN  /\ sessions' = revokeAllUserSessions(sessions, u, now)
           /\ last' = Ev("RefreshReuse", "refresh", p, ErrReuse, u,
                         call[p].token.sessionId,
                         Cardinality(revokeAllMatches(sessions, u)))
           /\ call' = Sweep([call EXCEPT ![p] = Idle], u)
    /\ revokedEver' = Track(sessions')
    /\ UNCHANGED <<config, resetBefore, now, ticks, users, nextId, issued, accepted, failsSeen, streak>>

\* jwtService.verify threw: revokeSession(session.id), then throw
RefreshBadJwt(p) ==
    /\ call[p].pc = "refresh_bad_jwt"
    /\ LET id == call[p].session.id
       IN  IF id \in DOMAIN sessions
           THEN /\ sessions' = revokeSession(sessions, id, now)
                /\ last' = Ev("RefreshBadJwt", "refresh", p, ErrInvalidRefresh,
                              call[p].session.userId, id, 0)
           ELSE /\ sessions' = sessions
                /\ last' = Ev("RefreshBadJwt", "refresh", p, ErrStore,
                              call[p].session.userId, id, 0)
    /\ revokedEver' = Track(sessions')
    /\ call' = [call EXCEPT ![p] = Idle]
    /\ UNCHANGED <<config, resetBefore, now, ticks, users, nextId, issued, accepted, failsSeen, streak>>

\* first statement of the prisma.$transaction callback: revokeSession(session.id)
RefreshTxRevoke(p) ==
    /\ call[p].pc = "refresh_tx_revoke"
    /\ LET id == call[p].session.id
       IN  IF id \in DOMAIN sessions
           THEN /\ sessions' = revokeSession(sessions, id, now)
                /\ call' = [call EXCEPT ![p].pc = "gen_create", ![p].prev = id,
                                        ![p].before = sessions[id].isRevoked]
                /\ last' = Ev("RefreshTxRevoke", "refresh", p, PENDING,
                              call[p].session.userId, id, 0)
           ELSE /\ sessions' = sessions
                /\ call' = [call EXCEPT ![p] = Idle]
                /\ last' = Ev("RefreshTxRevoke", "refresh", p, ErrStore,
                              call[p].session.userId, id, 0)
    /\ revokedEver' = Track(sessions')
    /\ UNCHANGED <<config, resetBefore, now, ticks, users, nextId, issued, accepted, failsSeen, streak>>

-----------------------------------------------------------------------------
(* AuthService.logout / logoutAll / revokeSession *)

\* logout: if (refreshToken) { findByRefreshTokenHash(hashToken(refreshToken)) ... }
LogoutFind(p, token) ==
    /\ call[p] = Idle
    /\ LET session == IF token = NoToken
                      THEN NoSession
                      ELSE findByRefreshTokenHash(hashToken(token))
       IN  IF session.id # NULL
           THEN /\ call' = [call EXCEPT ![p] =
                       [Idle EXCEPT !.op = "logout", !.pc = "logout_revoke",
                                    !.token = token, !.session = KeptSession(session)]]
                /\ last' = Ev("LogoutFind", "logout", p, PENDING, session.userId,
                              token.sessionId, 0)
           ELSE /\ call' = call
                /\ last' = Ev("LogoutFind", "logout", p, OK, "none", token.sessionId, 0)
    /\ UNCHANGED <<config, resetBefore, now, ticks, users, sessions, nextId, issued, accepted,
                   revokedEver, failsSeen, streak>>

LogoutRevoke(p) ==
    /\ call[p].pc = "logout_revoke"
    /\ LET id == call[p].session.id
       IN  IF id \in DOMAIN sessions
           THEN /\ sessions' = revokeSession(sessions, id, now)
                /\ last' = Ev("LogoutRevoke", "logout", p, OK, call[p].session.userId, id, 0)
           ELSE /\ sessions' = sessions
                /\ last' = Ev("LogoutRevoke", "logout", p, ErrStore,
                              call[p].session.userId, id, 0)
    /\ revokedEver' = Track(sessions')
    /\ call' = [call EXCEPT ![p] = Idle]
    /\ UNCHANGED <<config, resetBefore, now, ticks, users, nextId, issued, accepted, failsSeen, streak>>

\* logoutAll(userId): revokeAllUserSessions(userId)
LogoutAll(userId) ==
    /\ sessions' = revokeAllUserSessions(sessions, userId, now)
    /\ revokedEver' = Track(sessions')
    /\ last' = Ev("LogoutAll", "logoutAll", "none", OK, userId, NULL,
                  Cardinality(revokeAllMatches(sessions, userId)))
    /\ call' = Sweep(call, userId)
    /\ UNCHANGED <<config, resetBefore, now, ticks, users, nextId, issued, accepted, failsSeen, streak>>

\* an owner check that accepts any existing session
ownsSession_anyOwner(session, userId) == session.id # NULL

\* !(!session || session.userId !== userId)
ownsSession(session, userId) == session.id # NULL /\ session.userId = userId

\* AuthService.revokeSession(userId, sessionId): findById and the owner check
RevokeFind(p, userId, sessionId) ==
    /\ call[p] = Idle
    /\ LET session == findById(sessionId)
       IN  IF ~ownsSession(session, userId)
           THEN /\ call' = call
                /\ last' = Ev("RevokeFind", "revokeSession", p, ErrSessionNotFound,
                              userId, sessionId, 0)
           ELSE /\ call' = [call EXCEPT ![p] =
                       [Idle EXCEPT !.op = "revokeSession", !.pc = "revoke_update",
                                    !.session = KeptSession(session)]]
                /\ last' = Ev("RevokeFind", "revokeSession", p, PENDING,
                              userId, sessionId, 0)
    /\ UNCHANGED <<config, resetBefore, now, ticks, users, sessions, nextId, issued, accepted,
                   revokedEver, failsSeen, streak>>

RevokeUpdate(p) ==
    /\ call[p].pc = "revoke_update"
    /\ LET id == call[p].session.id
       IN  IF id \in DOMAIN sessions
           THEN /\ sessions' = revokeSession(sessions, id, now)
                /\ last' = Ev("RevokeUpdate", "revokeSession", p, OK,
                              call[p].session.userId, id, 0)
           ELSE /\ sessions' = sessions
                /\ last' = Ev("RevokeUpdate", "revokeSession", p, ErrStore,
                              call[p].session.userId, id, 0)
    /\ revokedEver' = Track(sessions')
    /\ call' = [call EXCEPT ![p] = Idle]
    /\ UNCHANGED <<config, resetBefore, now, ticks, users, nextId, issued, accepted, failsSeen, streak>>

-----------------------------------------------------------------------------
(* SessionService.updateLastUsed and the cleanup jobs *)

UpdateLastUsed(id) ==
    /\ id \in DOMAIN sessions
    /\ sessions' = [sessions EXCEPT ![id] = Merge(@, updateLastUsedData(now))]
    /\ revokedEver' = Track(sessions')
    /\ last' = Ev("UpdateLastUsed", "updateLastUsed", "none", OK,
                  sessions[id].userId, id, 0)
    /\ UNCHANGED <<config, resetBefore, now, ticks, users, nextId, call, issued, accepted, failsSeen, streak>>

CleanupExpired ==
    /\ sessions' = cleanupExpiredSessions(sessions, now)
    /\ revokedEver' = Track(sessions')
    /\ last' = Ev("CleanupExpired", "cleanup", "none", OK, "none", NULL,
                  Cardinality(DOMAIN sessions \ DOMAIN sessions'))
    /\ UNCHANGED <<config, resetBefore, now, ticks, users, nextId, call, issued, accepted, failsSeen, streak>>

CleanupRevoked ==
    /\ sessions' = cleanupRevokedSessions(sessions, retentionDays, now)
    /\ revokedEver' = Track(sessions')
    /\ last' = Ev("CleanupRevoked", "cleanup", "none", OK, "none", NULL,
                  Cardinality(DOMAIN sessions \ DOMAIN sessions'))
    /\ UNCHANGED <<config, resetBefore, now, ticks, users, nextId, call, issued, accepted, failsSeen, streak>>

\* SessionController DELETE /sessions/:id (ADMIN): sessionService.deleteSession(id);
\* prisma.session.delete throws when no row has the id
DeleteSession(id) ==
    /\ IF id \in DOMAIN sessions
       THEN /\ sessions' = deleteSession(sessions, id)
            /\ last' = Ev("DeleteSession", "deleteSession", "none", OK,
                          sessions[id].userId, id, 1)
       ELSE /\ sessions' = sessions
            /\ last' = Ev("DeleteSession", "deleteSession", "none", ErrStore, "none", id, 0)
    /\ revokedEver' = Track(sessions')
    /\ UNCHANGED <<config, resetBefore, now, ticks, users, nextId, call, issued, accepted, failsSeen, streak>>

-----------------------------------------------------------------------------
(* UserController.update / UserService.update, UserService.updatePassword *)

\* bodies of PATCH /users/:id: UpdateUserDto declares isActive (inherited from
\* CreateUserDto), failedLoginAttempts, lockedUntil and password, all optional
UpdateDtos ==
    {[isActive |-> FALSE],
     [isActive |-> TRUE],
     [failedLoginAttempts |-> 0, lockedUntil |-> NULL]}

\* UserService.update: password, when given, is replaced by its hash; the
\* other fields of the body are the data of prisma.user.update
updateData(dto) ==
    IF "password" \in DOMAIN dto
    THEN [f \in (DOMAIN dto \ {"password"}) \cup {"passwordHash"} |->
              IF f = "passwordHash" THEN bcryptHash(dto.password) ELSE dto[f]]
    ELSE dto

UserUpdate(id, dto) ==
    /\ users' = [users EXCEPT ![id] = Merge(@, updateData(dto))]
    /\ last' = Ev("UserUpdate", "userUpdate", "none", OK, id, NULL, 0)
    /\ UNCHANGED <<config, resetBefore, now, ticks, sessions, nextId, call, issued, accepted,
                   revokedEver, failsSeen, streak>>

\* UserService.updatePassword(id, newPassword), as the controller calls it
UpdatePassword(id, newPassword) ==
    /\ newPassword # <<>>
    /\ users' = [users EXCEPT ![id] = Merge(@, [passwordHash |-> bcryptHash(newPassword)])]
    /\ last' = Ev("UpdatePassword", "updatePassword", "none", OK, id, NULL, 0)
    /\ UNCHANGED <<config, resetBefore, now, ticks, sessions, nextId, call, issued, accepted,
                   revokedEver, failsSeen, streak>>

-----------------------------------------------------------------------------
(* AuthService.requestPasswordReset / resetPassword *)

\* crypto.randomBytes(32).toString('hex'): the token of a request, and a
\* string that no request produced
ResetTokens == {"r1"}
WrongResetToken == "r0"

\* requestPasswordReset: findByEmail(email), the address as given
RequestFind(p, email) ==
    /\ call[p] = Idle
    /\ LET user == findByEmail(email)
       IN  IF user.id = "none"
           THEN /\ call' = call
                /\ last' = Ev("RequestFind", "requestPasswordReset", p, OK, "none", NULL, 0)
           ELSE /\ call' = [call EXCEPT ![p] =
                       [Idle EXCEPT !.op = "requestPasswordReset", !.pc = "request_update",
                                    !.user = [id |-> user.id]]]
                /\ last' = Ev("RequestFind", "requestPasswordReset", p, PENDING,
                              user.id, NULL, 0)
    /\ UNCHANGED <<config, resetBefore, now, ticks, users, sessions, nextId, issued,
                   accepted, revokedEver, failsSeen, streak>>

\* the data requestPasswordReset passes to prisma.user.update
resetRequestData(token, t) ==
    [passwordResetToken |-> hashToken(token), passwordResetExpiry |-> t + resetTokenSecs]

RequestUpdate(p) ==
    /\ call[p].pc = "request_update"
    /\ \E token \in ResetTokens :
          /\ users' = [users EXCEPT ![call[p].user.id] = Merge(@, resetRequestData(token, now))]
          /\ last' = Ev("RequestUpdate", "requestPasswordReset", p, OK, call[p].user.id,
                        token, 0)
    /\ call' = [call EXCEPT ![p] = Idle]
    /\ UNCHANGED <<config, resetBefore, now, ticks, sessions, nextId, issued, accepted,
                   revokedEver, failsSeen, streak>>

\* prisma.user.findFirst({ where: { passwordResetToken, passwordResetExpiry: { gt: now } } })
findByResetToken(tokenHash, t) ==
    LET match == {u \in DOMAIN users : /\ users[u].passwordResetExpiry # NULL
                                        /\ users[u].passwordResetExpiry > t
                                        /\ users[u].passwordResetToken = tokenHash}
    IN  IF match = {} THEN [id |-> "none"]
        ELSE LET u == CHOOSE v \in match : TRUE IN [id |-> u] @@ users[u]

\* resetPassword: the lookup by token hash, the throw, bcrypt.hash
ResetFind(p, token, newPassword) ==
    /\ call[p] = Idle
    /\ LET user == findByResetToken(hashToken(token), now)
       IN  IF user.id = "none"
           THEN /\ call' = call
                /\ last' = Ev("ResetFind", "resetPassword", p, ErrResetToken, "none", token, 0)
           ELSE /\ call' = [call EXCEPT ![p] =
                       [Idle EXCEPT !.op = "resetPassword", !.pc = "reset_update",
                                    !.user = [id |-> user.id,
                                              passwordHash |-> bcryptHash(newPassword)]]]
                /\ last' = Ev("ResetFind", "resetPassword", p, PENDING, user.id, token, 0)
    /\ UNCHANGED <<config, resetBefore, now, ticks, users, sessions, nextId, issued,
                   accepted, revokedEver, failsSeen, streak>>

\* the data resetPassword passes to prisma.user.update
resetPasswordData(passwordHash, t) ==
    [passwordHash |-> passwordHash, passwordResetToken |-> NULL,
     passwordResetExpiry |-> NULL, passwordChangedAt |-> t]

ResetUpdate(p) ==
    /\ call[p].pc = "reset_update"
    /\ users' = [users EXCEPT ![call[p].user.id] =
                    Merge(@, resetPasswordData(call[p].user.passwordHash, now))]
    /\ call' = [call EXCEPT ![p].pc = "reset_revoke"]
    /\ last' = Ev("ResetUpdate", "resetPassword", p, PENDING, call[p].user.id, NULL, 0)
    /\ UNCHANGED <<config, resetBefore, now, ticks, sessions, nextId, issued, accepted,
                   revokedEver, failsSeen, streak>>

\* a resetPassword that leaves the sessions as they are
resetPasswordSessions_none(tbl, userId, t) == tbl

\* resetPassword: await this.sessionService.revokeAllUserSessions(user.id)
resetPasswordSessions(tbl, userId, t) == revokeAllUserSessions(tbl, userId, t)

ResetRevoke(p) ==
    /\ call[p].pc = "reset_revoke"
    /\ LET u == call[p].user.id
       IN  /\ sessions' = resetPasswordSessions(sessions, u, now)
           /\ resetBefore' = resetBefore \cup {t.sessionId : t \in {x \in issued : x.sub = u}}
           /\ last' = Ev("ResetRevoke", "resetPassword", p, OK, u, NULL,
                         Cardinality(revokeAllMatches(sessions, u)))
           /\ call' = Sweep([call EXCEPT ![p] = Idle], u)
    /\ revokedEver' = Track(sessions')
    /\ UNCHANGED <<config, now, ticks, users, nextId, issued, accepted, failsSeen, streak>>

-----------------------------------------------------------------------------
(* OAuthService.handleOAuthLogin for the email of a registered account *)

\* the profile check and prisma.user.findUnique({ email: profile.email.toLowerCase() })
OAuthFind(p, email) ==
    /\ call[p] = Idle
    /\ IF email = <<>>
       THEN /\ call' = call
            /\ last' = Ev("OAuthFind", "oauth", p, ErrNoEmail, "none", NULL, 0)
       ELSE LET user == findByEmail(toLowerCase(email))
            IN  /\ user.id # "none"
                /\ call' = [call EXCEPT ![p] =
                       [Idle EXCEPT !.op = "oauth", !.pc = "oauth_update",
                                    !.user = [id |-> user.id]]]
                /\ last' = Ev("OAuthFind", "oauth", p, PENDING, user.id, NULL, 0)
    /\ UNCHANGED <<config, resetBefore, now, ticks, users, sessions, nextId, issued, accepted,
                   revokedEver, failsSeen, streak>>

\* the data updateUserOAuthInfo passes to prisma.user.update, of the modelled fields
oauthInfo(t) == [lastLoginAt |-> t]

\* updateUserOAuthInfo, then the isActive check on the row the update returned
OAuthUpdate(p) ==
    /\ call[p].pc = "oauth_update"
    /\ LET u == call[p].user.id
       IN  /\ users' = [users EXCEPT ![u] = Merge(@, oauthInfo(now))]
           /\ IF users[u].isActive
              THEN /\ call' = [call EXCEPT ![p].pc = "gen_create"]
                   /\ last' = Ev("OAuthUpdate", "oauth", p, PENDING, u, NULL, 0)
              ELSE /\ call' = [call EXCEPT ![p] = Idle]
                   /\ last' = Ev("OAuthUpdate", "oauth", p, ErrInactive, u, NULL, 0)
    /\ UNCHANGED <<config, resetBefore, now, ticks, sessions, nextId, issued, accepted,
                   revokedEver, failsSeen, streak>>

-----------------------------------------------------------------------------
(* Lockout: password logins on the accounts, any interleaving *)

LockoutEmails == {EmailA, EmailAUpper, EmailNobody}

NextLockout ==
    \/ Room(MaxLockSessions) /\ \E p \in Procs, e \in LockoutEmails : LoginFind(p, e, PwP)
    \/ \E p \in Procs, e \in LockoutEmails : LoginFind(p, e, PwQ)
    \/ \E p \in Procs : LoginFail(p)
    \/ \E p \in Procs : LoginReset(p)
    \/ \E p \in Procs : CreateSession(p)
    \/ ticks < MaxLockTicks /\ TickLock

SpecLockout == Init /\ [][NextLockout]_vars

\* the same with one request at a time: consecutive attempts
NextSeq ==
    \/ Room(MaxLockSessions) /\ \E e \in LockoutEmails : LoginFind("p1", e, PwP)
    \/ \E e \in LockoutEmails : LoginFind("p1", e, PwQ)
    \/ LoginFail("p1")
    \/ LoginReset("p1")
    \/ CreateSession("p1")
    \/ ticks < MaxLockTicks /\ TickSecond
    \/ ticks < MaxLockTicks /\ TickLock

SpecSeq == Init /\ [][NextSeq]_vars

-----------------------------------------------------------------------------
(* Sessions: logins with the right password, rotation, revocation, cleanup. *)
(* One request slot runs the multi-step handlers; the single-statement     *)
(* operations and the clock interleave with it at every await.             *)

SessionEmails == {EmailA, EmailB}
Presentable == issued \cup {ForgedToken}

\* the presentation would get past every check of refreshToken
Rotates(token) ==
    refreshCheck(findByRefreshTokenHash(hashToken(token)), token, now) = "refresh_tx_revoke"

Next ==
    \/ Room(MaxSessions) /\ \E e \in SessionEmails : LoginFind("p1", e, PwP)
    \/ LoginReset("p1")
    \/ CreateSession("p1")
    \/ \E t \in Presentable : (Room(MaxSessions) \/ ~Rotates(t)) /\ RefreshFind("p1", t)
    \/ RefreshReuse("p1")
    \/ RefreshTxRevoke("p1")
    \/ \E t \in Presentable : LogoutFind("p1", t)
    \/ LogoutRevoke("p1")
    \/ \E u \in UserIds : LogoutAll(u)
    \/ \E u \in UserIds, id \in 1..MaxSessions : RevokeFind("p1", u, id)
    \/ RevokeUpdate("p1")
    \/ CleanupExpired
    \/ CleanupRevoked
    \/ ticks < MaxTicks /\ TickMonth

Spec == Init /\ [][Next]_vars

-----------------------------------------------------------------------------
(* Session rows: every operation that writes a session row, one owner's   *)
(* logins, one request slot                                               *)

NextStore ==
    \/ Room(MaxSessions) /\ LoginFind("p1", EmailA, PwP)
    \/ LoginReset("p1")
    \/ CreateSession("p1")
    \/ \E t \in Presentable : (Room(MaxSessions) \/ ~Rotates(t)) /\ RefreshFind("p1", t)
    \/ RefreshReuse("p1")
    \/ RefreshTxRevoke("p1")
    \/ \E t \in Presentable : LogoutFind("p1", t)
    \/ LogoutRevoke("p1")
    \/ \E u \in UserIds : LogoutAll(u)
    \/ \E u \in UserIds, id \in 1..MaxSessions : RevokeFind("p1", u, id)
    \/ RevokeUpdate("p1")
    \/ \E id \in 1..MaxSessions : UpdateLastUsed(id)
    \/ CleanupExpired
    \/ CleanupRevoked
    \/ ticks < MaxTicks /\ TickMonth

SpecStore == Init /\ [][NextStore]_vars

-----------------------------------------------------------------------------
(* Races: two requests in flight at once; logins, refreshes, revocations *)

NextRace ==
    \/ Room(MaxRaceSessions) /\ \E p \in Procs, e \in SessionEmails : LoginFind(p, e, PwP)
    \/ \E p \in Procs : LoginReset(p)
    \/ \E p \in Procs : CreateSession(p)
    \/ \E p \in Procs, t \in Presentable :
          (Room(MaxRaceSessions) \/ ~Rotates(t)) /\ RefreshFind(p, t)
    \/ \E p \in Procs : RefreshReuse(p)
    \/ \E p \in Procs : RefreshTxRevoke(p)
    \/ \E p \in Procs, t \in Presentable : LogoutFind(p, t)
    \/ \E p \in Procs : LogoutRevoke(p)
    \/ \E u \in UserIds : LogoutAll(u)
    \/ \E p \in Procs, u \in UserIds, id \in 1..MaxRaceSessions : RevokeFind(p, u, id)
    \/ \E p \in Procs : RevokeUpdate(p)

SpecRace == Init /\ [][NextRace]_vars

\* the same, where sessionService.create may fail
NextFault ==
    \/ Room(MaxRaceSessions) /\ \E p \in Procs : LoginFind(p, EmailA, PwP)
    \/ \E p \in Procs : LoginReset(p)
    \/ \E p \in Procs : CreateSession(p)
    \/ \E p \in Procs : CreateSessionFail(p)
    \/ \E p \in Procs, t \in Presentable :
          (Room(MaxRaceSessions) \/ ~Rotates(t)) /\ RefreshFind(p, t)
    \/ \E p \in Procs : RefreshReuse(p)
    \/ \E p \in Procs : RefreshTxRevoke(p)

SpecFault == Init /\ [][NextFault]_vars

-----------------------------------------------------------------------------
(* Expiry: one owner's tokens presented as the clock passes their expiry *)

NextExpiry ==
    \/ Room(MaxSessions) /\ LoginFind("p1", EmailA, PwP)
    \/ LoginReset("p1")
    \/ CreateSession("p1")
    \/ \E t \in Presentable : (Room(MaxSessions) \/ ~Rotates(t)) /\ RefreshFind("p1", t)
    \/ RefreshReuse("p1")
    \/ RefreshBadJwt("p1")
    \/ RefreshTxRevoke("p1")
    \/ ticks < MaxTicks /\ TickWeek
    \/ ticks < MaxTicks /\ TickMonth

SpecExpiry == InitExpiry /\ [][NextExpiry]_vars

-----------------------------------------------------------------------------
(* Accounts: the operations that write an account row, one request slot *)

NextAccount ==
    \/ Room(MaxSessions) /\ LoginFind("p1", EmailA, PwP)
    \/ LoginFind("p1", EmailA, PwQ)
    \/ LoginFail("p1")
    \/ LoginReset("p1")
    \/ CreateSession("p1")
    \/ \E t \in Presentable : (Room(MaxSessions) \/ ~Rotates(t)) /\ RefreshFind("p1", t)
    \/ RefreshReuse("p1")
    \/ RefreshTxRevoke("p1")
    \/ \E u \in UserIds, dto \in UpdateDtos : UserUpdate(u, dto)
    \/ \E u \in UserIds : UpdatePassword(u, PwP)
    \/ \E e \in {<<>>, EmailAUpper} : (Room(MaxSessions) \/ e = <<>>) /\ OAuthFind("p1", e)
    \/ OAuthUpdate("p1")

SpecAccount == Init /\ [][NextAccount]_vars

-----------------------------------------------------------------------------
(* The lock and the other ways in: password logins that lock the account, *)
(* rotations and OAuth logins of the same account, one request slot        *)

NextGate ==
    \/ Room(MaxRaceSessions) /\ LoginFind("p1", EmailA, PwP)
    \/ LoginFind("p1", EmailA, PwQ)
    \/ LoginFail("p1")
    \/ LoginReset("p1")
    \/ CreateSession("p1")
    \/ \E t \in Presentable : (Room(MaxRaceSessions) \/ ~Rotates(t)) /\ RefreshFind("p1", t)
    \/ RefreshReuse("p1")
    \/ RefreshTxRevoke("p1")
    \/ Room(MaxRaceSessions) /\ OAuthFind("p1", EmailAUpper)
    \/ OAuthUpdate("p1")
    \/ ticks < MaxTicks /\ TickSecond

SpecGate == Init /\ [][NextGate]_vars

-----------------------------------------------------------------------------
(* Probing: password logins with any input, on accounts that an            *)
(* administrator deactivates and reactivates                               *)

ProbeEmails == {EmailA, EmailNobody, EmailMalformed}
ActiveDtos == {dto \in UpdateDtos : DOMAIN dto = {"isActive"}}

NextProbe ==
    \/ \E e \in ProbeEmails, pw \in Passwords :
          (Room(MaxLockSessions) \/ pw # PwP) /\ LoginFind("p1", e, pw)
    \/ LoginFail("p1")
    \/ LoginReset("p1")
    \/ CreateSession("p1")
    \/ \E dto \in ActiveDtos : UserUpdate("u1", dto)
    \/ ticks < MaxLockTicks /\ TickLock

SpecProbe == Init /\ [][NextProbe]_vars

-----------------------------------------------------------------------------
(* Cleanup: one owner's sessions, revoked or not, as the clock passes their *)
(* expiry and the retention window; the cleanup jobs and the               *)
(* administrator's DELETE                                                   *)

NextCleanup ==
    \/ Room(MaxSessions) /\ LoginFind("p1", EmailA, PwP)
    \/ LoginReset("p1")
    \/ CreateSession("p1")
    \/ LogoutAll("u1")
    \/ CleanupExpired
    \/ CleanupRevoked
    \/ \E id \in 1..MaxSessions : DeleteSession(id)
    \/ ticks < MaxTicks /\ TickWeek
    \/ ticks < MaxTicks /\ TickMonth

SpecCleanup == Init /\ [][NextCleanup]_vars

-----------------------------------------------------------------------------
(* Registration: two requests in flight; registrations of new, registered  *)
(* and malformed addresses, and logins with well-formed and malformed input *)

RegisterEmails ==
    {EmailA, EmailAUpper, EmailAPadded, EmailNobody, EmailNobodyUpper, EmailMalformed}
InputEmails == {EmailA, EmailAPadded, EmailMalformed}
InputPasswords == {PwP, PwEmpty, PwBlank}

\* the registration would get past the conflict check
Registers(email) ==
    isValidEmail(email) /\ findByEmail(registerEmail(email)).id = "none"

\* the login would get past validateUser
LogsIn(email, password) ==
    validateUserReads(email, password) # {}
        /\ validateUser(email, password, findByEmail(trim(toLowerCase(email))), now)
               = "login_reset"

NextRegister ==
    \/ \E p \in Procs, e \in RegisterEmails :
          (Room(MaxSessions) \/ ~Registers(e)) /\ RegisterFind(p, e, PwP)
    \/ \E p \in Procs : RegisterCreate(p)
    \/ \E p \in Procs : CreateSession(p)
    \/ \E p \in Procs, e \in InputEmails, pw \in InputPasswords :
          (Room(MaxSessions) \/ ~LogsIn(e, pw)) /\ LoginFind(p, e, pw)
    \/ \E p \in Procs : LoginReset(p)

SpecRegister == Init /\ [][NextRegister]_vars

-----------------------------------------------------------------------------
(* Issuing: the three ways to a first token pair (password login,          *)
(* registration, OAuth login), one request slot                            *)

NextIssue ==
    \/ Room(MaxRaceSessions) /\ \E e \in SessionEmails : LoginFind("p1", e, PwP)
    \/ LoginReset("p1")
    \/ \E e \in {EmailA, EmailNobody} :
          (Room(MaxRaceSessions) \/ ~Registers(e)) /\ RegisterFind("p1", e, PwP)
    \/ RegisterCreate("p1")
    \/ Room(MaxRaceSessions) /\ OAuthFind("p1", EmailAUpper)
    \/ OAuthUpdate("p1")
    \/ CreateSession("p1")
    \/ ticks < MaxTicks /\ TickSecond

SpecIssue == Init /\ [][NextIssue]_vars

-----------------------------------------------------------------------------
(* Access: bearer tokens presented while their owner's sessions are revoked, *)
(* the owner is deactivated and reactivated, and the clock passes their      *)
(* expiry                                                                    *)

NextAccess ==
    \/ Room(MaxLockSessions) /\ LoginFind("p1", EmailA, PwP)
    \/ LoginReset("p1")
    \/ CreateSession("p1")
    \/ LogoutAll("u1")
    \/ \E dto \in ActiveDtos : UserUpdate("u1", dto)
    \/ \E t \in AccessIssued \cup {ForgedAccess} : ValidateAccess(t)
    \/ ticks < MaxLockTicks /\ TickSecond
    \/ ticks < MaxLockTicks /\ TickLock

SpecAccess == Init /\ [][NextAccess]_vars

-----------------------------------------------------------------------------
(* Password reset: slot p1 logs in with the current password and rotates;   *)
(* slot p2 requests and performs resets, at any point of p1's calls         *)

NextReset ==
    \/ \E pw \in {PwP, PwQ} :
          Room(MaxSessions) /\ LogsIn(EmailA, pw) /\ LoginFind("p1", EmailA, pw)
    \/ LoginReset("p1")
    \/ CreateSession("p1")
    \/ \E t \in Presentable : (Room(MaxSessions) \/ ~Rotates(t)) /\ RefreshFind("p1", t)
    \/ RefreshReuse("p1")
    \/ RefreshTxRevoke("p1")
    \/ \E e \in {EmailA, EmailNobody} : RequestFind("p2", e)
    \/ RequestUpdate("p2")
    \/ \E token \in ResetTokens \cup {WrongResetToken} : ResetFind("p2", token, PwQ)
    \/ ResetUpdate("p2")
    \/ ResetRevoke("p2")
    \/ ticks < MaxTicks /\ TickHour

SpecReset == Init /\ [][NextReset]_vars

-----------------------------------------------------------------------------
(* Logout: two owners' logins and logouts with issued, forged and missing  *)
(* tokens; an administrator deletes sessions at any point                  *)

NextLogout ==
    \/ Room(MaxSessions) /\ \E e \in SessionEmails : LoginFind("p1", e, PwP)
    \/ LoginReset("p1")
    \/ CreateSession("p1")
    \/ \E t \in Presentable \cup {NoToken} : LogoutFind("p1", t)
    \/ LogoutRevoke("p1")
    \/ \E id \in 1..MaxSessions : DeleteSession(id)

SpecLogout == Init /\ [][NextLogout]_vars

-----------------------------------------------------------------------------
(* Rejections: one owner's tokens, and a forged one, presented while the   *)
(* owner is deactivated and reactivated and the clock passes the expiry    *)

NextReject ==
    \/ Room(MaxSessions) /\ LoginFind("p1", EmailA, PwP)
    \/ LoginReset("p1")
    \/ CreateSession("p1")
    \/ \E t \in Presentable : (Room(MaxSessions) \/ ~Rotates(t)) /\ RefreshFind("p1", t)
    \/ RefreshReuse("p1")
    \/ RefreshTxRevoke("p1")
    \/ \E dto \in ActiveDtos : UserUpdate("u1", dto)
    \/ ticks < MaxTicks /\ TickMonth

SpecReject == Init /\ [][NextReject]_vars

-----------------------------------------------------------------------------
(* Properties of rotation and revocation *)

RejectingPcs == {"refresh_reuse", "refresh_bad_jwt"}

\* C1: a refresh token is accepted at most once.  A presentation made after
\* the token was accepted, or after its session was marked revoked, never
\* gets onto the rotation path and never returns a token pair.
C1_SingleUse ==
    /\ \A p \in Procs :
          (call[p].op = "refresh" /\ call[p].late) => call[p].pc \in RejectingPcs
    /\ (last.act = "CreateSession" /\ last.op = "refresh") => ~last.late
    /\ (last.act = "RefreshFind" /\ last.late) => last.out # OK

\* a token that had been accepted is presented again and is on the reuse path
C1_Witness ==
    \E p \in Procs :
        /\ call[p].pc = "refresh_reuse"
        /\ call[p].late
        /\ call[p].token.sessionId \in DOMAIN accepted

\* C2: two refreshToken calls presenting the same token never both succeed,
\* whatever the interleaving of their store reads and writes.
C2_NoDoubleAccept == \A id \in DOMAIN accepted : accepted[id] <= 1

RECURSIVE Root(_)
Root(s) ==
    IF sessions[s].previousSessionId \in DOMAIN sessions
    THEN Root(sessions[s].previousSessionId)
    ELSE s

Live(s) == ~sessions[s].isRevoked /\ ~(sessions[s].expiresAt < now)

\* C3: every refresh-token lineage (a session created by a login together
\* with the sessions linked to it through previousSessionId) holds at most
\* one session that is neither revoked nor expired.
C3_OneLivePerLineage ==
    \A s, t \in DOMAIN sessions :
        (s # t /\ Root(s) = Root(t)) => ~(Live(s) /\ Live(t))

\* C4: the rotation is one transaction: when creating the successor fails,
\* the revocation of the matched session is rolled back, that is the row has
\* the isRevoked value it had before the transaction's UPDATE.
C4_RotationAtomic ==
    (last.act = "CreateSessionFail" /\ last.op = "refresh"
        /\ last.token \in DOMAIN sessions)
    => sessions[last.token].isRevoked = last.before

\* C5: the reuse branch of refreshToken revokes every non-revoked session of
\* the owner of the presented session, rejects, and leaves the sessions of
\* other owners as they were.
C5_ReuseCascade ==
    [][\A p \in Procs :
          (call[p].pc = "refresh_reuse" /\ call'[p].pc = "idle") =>
              LET u == call[p].session.userId
              IN  /\ last'.out = ErrReuse
                  /\ DOMAIN sessions' = DOMAIN sessions
                  /\ \A s \in DOMAIN sessions' :
                        sessions'[s].userId = u => sessions'[s].isRevoked
                  /\ \A s \in DOMAIN sessions :
                        sessions[s].userId # u => sessions'[s] = sessions[s]]_vars

\* the cascade revoked a live session while another owner kept one
C5_Witness ==
    /\ last.act = "RefreshReuse"
    /\ last.count >= 1
    /\ \E s \in DOMAIN sessions :
          sessions[s].userId # last.user /\ ~sessions[s].isRevoked

\* C6: isRevoked is monotonic: no step takes a session row from revoked to
\* not revoked.
C6_RevokedMonotonic ==
    [][\A s \in DOMAIN sessions :
          (sessions[s].isRevoked /\ s \in DOMAIN sessions') => sessions'[s].isRevoked]_vars

\* a revoked session row was written again and is still revoked
C6_Witness ==
    /\ last.act = "UpdateLastUsed"
    /\ last.token \in DOMAIN sessions
    /\ sessions[last.token].isRevoked
    /\ last.token \in revokedEver

\* C7: after revokeAllUserSessions(owner) no session of the owner is
\* non-revoked and every session of every other owner is unchanged.
C7_RevokeAll ==
    [][last'.act = "LogoutAll" =>
          /\ DOMAIN sessions' = DOMAIN sessions
          /\ \A s \in DOMAIN sessions' :
                sessions'[s].userId = last'.user => sessions'[s].isRevoked
          /\ \A s \in DOMAIN sessions :
                sessions[s].userId # last'.user => sessions'[s] = sessions[s]]_vars

\* logoutAll revoked a session of its owner while another owner holds a live one
C7_Witness ==
    /\ last.act = "LogoutAll"
    /\ last.count >= 1
    /\ \E s \in DOMAIN sessions :
          /\ sessions[s].userId # last.user
          /\ ~sessions[s].isRevoked
          /\ ~(sessions[s].expiresAt < now)

-----------------------------------------------------------------------------
(* Properties of the lockout *)

\* the account a login attempt found is under a lock set at the threshold
LockInForce(u) ==
    /\ users[u].failedLoginAttempts >= maxAttempts
    /\ users[u].lockedUntil # NULL
    /\ now < users[u].lockedUntil

LockElapsed(u) ==
    /\ users[u].failedLoginAttempts >= maxAttempts
    /\ users[u].lockedUntil # NULL
    /\ ~(now < users[u].lockedUntil)

\* C8: a well-formed login attempt on an active account made while the lock
\* is in force is rejected as locked, whatever the password, and creates no
\* session; a correct-password attempt made once lockedUntil has elapsed is
\* let through, its only continuation being the reset and a new session.
C8_Lockout ==
    [][/\ (last'.act = "LoginFind" /\ last'.user # "none"
              /\ last'.out # ErrPasswordRequired) =>
              /\ (users[last'.user].isActive /\ LockInForce(last'.user)) =>
                    /\ last'.out = ErrLocked
                    /\ sessions' = sessions
                    /\ call' = call
              /\ (users[last'.user].isActive /\ LockElapsed(last'.user) /\ last'.pwOk) =>
                    /\ last'.out = PENDING
                    /\ \E p \in Procs :
                          /\ call[p] = Idle
                          /\ call'[p].pc = "login_reset"
                          /\ call'[p].user.id = last'.user
       /\ \A p \in Procs :
              /\ (call[p].pc = "login_reset" /\ call'[p] # call[p]) =>
                    /\ call'[p].pc = "gen_create"
                    /\ call'[p].op = "login"
              /\ (call[p].pc = "gen_create" /\ call[p].op = "login"
                      /\ call'[p] # call[p]) =>
                    /\ last'.out = OK
                    /\ nextId \in DOMAIN sessions'
                    /\ sessions'[nextId].userId = call[p].user.id
                    /\ ~sessions'[nextId].isRevoked]_vars

\* an attempt with the correct password was rejected as locked
C8_Witness ==
    /\ last.act = "LoginFind"
    /\ last.out = ErrLocked
    /\ last.pwOk
    /\ LockInForce(last.user)

\* C9: N concurrent wrong-password attempts on an unlocked account leave
\* failedLoginAttempts exactly N higher: with no successful login so far and
\* no attempt in flight, the counter equals the number of wrong-password
\* attempts processed.
C9_NoLostUpdate ==
    \A u \in UserIds :
        (/\ users[u].lastLoginAt = NULL
         /\ \A p \in Procs : ~(call[p].op = "login" /\ call[p].user.id = u))
        => users[u].failedLoginAttempts = failsSeen[u]

\* C10: from failedLoginAttempts = 0 and no lock, consecutive wrong-password
\* logins each fail with invalid credentials; the first four leave
\* lockedUntil unset, the fifth sets it to now + 15 minutes, and an attempt
\* within that window is rejected as locked.
C10_FiveStrikes ==
    [][/\ last'.act = "LoginFail" =>
              LET u == last'.user
                  k == streak'[u]
              IN  k <= maxAttempts =>
                    /\ last'.out = ErrInvalidCredentials
                    /\ users'[u].failedLoginAttempts = k
                    /\ k < maxAttempts => users'[u].lockedUntil = NULL
                    /\ k = maxAttempts => users'[u].lockedUntil = now + 15 * 60
       /\ (last'.act = "LoginFind" /\ last'.user # "none") =>
              LET u == last'.user
              IN  (streak[u] = maxAttempts /\ users[u].lockedUntil # NULL
                      /\ now < users[u].lockedUntil)
                  => last'.out = ErrLocked /\ sessions' = sessions]_vars

\* the sixth attempt, made within the window opened by the fifth, was rejected
C10_Witness ==
    /\ last.act = "LoginFind"
    /\ last.out = ErrLocked
    /\ last.user # "none"
    /\ streak[last.user] = maxAttempts
    /\ users[last.user].lockedUntil = 15 * 60
    /\ now = 1

\* C11: a login with the correct password on an active, unlocked account goes
\* on to the reset, and the reset is one update that sets failedLoginAttempts
\* to 0, lockedUntil to null and lastLoginAt to now, whatever the counter was,
\* and writes no other account.
C11_ResetOnSuccess ==
    [][/\ (last'.act = "LoginFind" /\ last'.user # "none" /\ last'.pwOk
              /\ users[last'.user].isActive /\ ~isLocked(users[last'.user], now)) =>
              /\ last'.out = PENDING
              /\ \E p \in Procs : call[p] = Idle /\ call'[p].pc = "login_reset"
       /\ \A p \in Procs :
              (call[p].pc = "login_reset" /\ call'[p] # call[p]) =>
                  LET u == call[p].user.id
                  IN  /\ users'[u].failedLoginAttempts = 0
                      /\ users'[u].lockedUntil = NULL
                      /\ users'[u].lastLoginAt = now
                      /\ \A v \in UserIds \ {u} : users'[v] = users[v]]_vars

\* the reset overwrote a counter at the threshold and the lock set with it
C11_Witness ==
    /\ last.act = "LoginReset"
    /\ last.count >= maxAttempts
    /\ users[last.user].failedLoginAttempts = 0
    /\ users[last.user].lockedUntil = NULL
    /\ users[last.user].lastLoginAt = now

\* C12: the write of a failed attempt never lowers failedLoginAttempts, and
\* never clears or moves earlier a lock that is in force.
C12_FailureMonotone ==
    [][last'.act = "LoginFail" =>
          LET u == last'.user
          IN  /\ users'[u].failedLoginAttempts >= users[u].failedLoginAttempts
              /\ isLocked(users[u], now) =>
                    /\ users'[u].lockedUntil # NULL
                    /\ users'[u].lockedUntil >= users[u].lockedUntil]_vars

\* the lock half of C12 on its own
C12_LockKept ==
    [][last'.act = "LoginFail" =>
          LET u == last'.user
          IN  isLocked(users[u], now) =>
                /\ users'[u].lockedUntil # NULL
                /\ users'[u].lockedUntil >= users[u].lockedUntil]_vars

\* C13: failedLoginAttempts and lockedUntil of an account are changed only by
\* the writes of validateUser (handleFailedLogin and the reset on success).
C13_LockoutFieldsFrame ==
    [][\A u \in UserIds :
          (\/ users'[u].failedLoginAttempts # users[u].failedLoginAttempts
           \/ users'[u].lockedUntil # users[u].lockedUntil)
          => last'.act \in {"LoginFail", "LoginReset"}]_vars

\* C14: for well-formed input, a login with an email that matches no account
\* and a login with a wrong password on an active, unlocked account get the
\* same outcome, Unauthorized 'Invalid credentials'.
C14_Indistinguishable ==
    [][/\ (last'.act = "LoginFind" /\ last'.valid) =>
              /\ last'.user = "none" =>
                    last'.out = ErrInvalidCredentials /\ call' = call
              /\ (last'.user # "none" /\ ~last'.pwOk /\ users[last'.user].isActive
                      /\ ~isLocked(users[last'.user], now)) =>
                    \E p \in Procs : call[p] = Idle /\ call'[p].pc = "login_fail"
       /\ \A p \in Procs :
              (call[p].pc = "login_fail" /\ call'[p] # call[p]) =>
                  last'.out = ErrInvalidCredentials /\ call'[p] = Idle]_vars

\* an unknown email was answered after a wrong password had been answered
C14_Witness ==
    /\ last.act = "LoginFind"
    /\ last.valid
    /\ last.user = "none"
    /\ last.out = ErrInvalidCredentials
    /\ \E u \in UserIds : failsSeen[u] >= 1

\* C15: login answers 'Account is inactive' only to a caller whose password
\* is correct; a wrong password on an inactive account is answered like a
\* wrong password on an active one.
C15_InactiveOnlyAfterPassword ==
    (last.act = "LoginFind" /\ last.out = ErrInactive) => last.pwOk

C17_ReuseLooksInvalid ==
    last.act = "RefreshReuse" => last.out = ErrInvalidRefresh

\* C18: when the presented token matches a non-revoked, non-expired session
\* of an active owner and jwtService.verify fails, refreshToken marks that
\* session revoked, rejects with 'Invalid refresh token', adds no session
\* and leaves every other session as it was.
C18_BadSignatureFailClosed ==
    [][/\ \A t \in Presentable :
              (/\ last'.act = "RefreshFind"
               /\ last'.token = t.sessionId
               /\ t.sessionId \in DOMAIN sessions
               /\ sessions[t.sessionId].refreshTokenHash = hashToken(t)
               /\ Live(t.sessionId)
               /\ users[sessions[t.sessionId].userId].isActive
               /\ ~jwtVerify(t, now)) =>
                  \E p \in Procs :
                      /\ call[p] = Idle
                      /\ call'[p].pc = "refresh_bad_jwt"
                      /\ call'[p].session.id = t.sessionId
       /\ \A p \in Procs :
              (call[p].pc = "refresh_bad_jwt" /\ call'[p] # call[p]
                  /\ call[p].session.id \in DOMAIN sessions) =>
                  LET id == call[p].session.id
                  IN  /\ call'[p] = Idle
                      /\ last'.out = ErrInvalidRefresh
                      /\ DOMAIN sessions' = DOMAIN sessions
                      /\ sessions'[id].isRevoked
                      /\ \A s \in DOMAIN sessions \ {id} : sessions'[s] = sessions[s]]_vars

\* a failed verification revoked the matched session and left another one live
C18_Witness ==
    /\ last.act = "RefreshBadJwt"
    /\ last.out = ErrInvalidRefresh
    /\ last.token \in DOMAIN sessions
    /\ sessions[last.token].isRevoked
    /\ \E s \in DOMAIN sessions : s # last.token /\ ~sessions[s].isRevoked

\* C19: refreshToken rejects a token whose session's expiresAt has passed
\* even when the JWT has not expired, and a token whose JWT has expired even
\* when expiresAt has not passed; neither presentation gets onto the
\* rotation path and the rejecting paths add no session.
C19_BothExpiries ==
    [][/\ \A t \in Presentable :
              (/\ last'.act = "RefreshFind"
               /\ last'.token = t.sessionId
               /\ t.sessionId \in DOMAIN sessions
               /\ sessions[t.sessionId].refreshTokenHash = hashToken(t)
               /\ (sessions[t.sessionId].expiresAt < now \/ ~(now < t.exp))) =>
                  /\ last'.out # OK
                  /\ sessions' = sessions
                  /\ \A p \in Procs :
                        call'[p] # call[p] => call'[p].pc \in RejectingPcs
       /\ \A p \in Procs :
              (call[p].pc \in RejectingPcs /\ call'[p] # call[p]) =>
                  /\ call'[p] = Idle
                  /\ last'.out \notin {OK, PENDING}
                  /\ DOMAIN sessions' = DOMAIN sessions]_vars

\* a token whose JWT is still valid was refused because expiresAt had passed
C19_Witness ==
    /\ last.act = "RefreshFind"
    /\ last.out = ErrExpired
    /\ \E t \in issued : t.sessionId = last.token /\ jwtVerify(t, now)

\* C20: revokeSession(userId, sessionId) fails with 'Session not found', and
\* changes nothing, when the session is absent or owned by someone else, the
\* same failure in both cases; otherwise its update revokes that session,
\* owned by userId, and no other.
C20_RevokeOwnedOnly ==
    [][/\ last'.act = "RevokeFind" =>
              IF last'.token \in DOMAIN sessions
                    /\ sessions[last'.token].userId = last'.user
              THEN /\ last'.out = PENDING
                   /\ sessions' = sessions
                   /\ \E p \in Procs :
                         /\ call[p] = Idle
                         /\ call'[p].pc = "revoke_update"
                         /\ call'[p].session = [id |-> last'.token, userId |-> last'.user]
              ELSE /\ last'.out = ErrSessionNotFound
                   /\ sessions' = sessions
                   /\ call' = call
       /\ \A p \in Procs :
              (call[p].pc = "revoke_update" /\ call'[p] # call[p]
                  /\ call[p].session.id \in DOMAIN sessions) =>
                  LET id == call[p].session.id
                  IN  /\ sessions[id].userId = call[p].session.userId
                      /\ DOMAIN sessions' = DOMAIN sessions
                      /\ sessions'[id].isRevoked
                      /\ \A s \in DOMAIN sessions \ {id} : sessions'[s] = sessions[s]]_vars

\* a caller named a live session of another owner and was told it does not exist
C20_Witness ==
    /\ last.act = "RevokeFind"
    /\ last.out = ErrSessionNotFound
    /\ last.token \in DOMAIN sessions
    /\ sessions[last.token].userId # last.user
    /\ ~sessions[last.token].isRevoked

-----------------------------------------------------------------------------
(* Properties of the cleanup jobs *)

\* C21: a run of cleanupExpiredSessions deletes exactly the sessions whose
\* expiresAt is earlier than now, leaves every other row as it was, reports
\* their number, and a second run at the same instant on the table it left
\* deletes nothing
C21_CleanupExpiredExact ==
    [][last'.act = "CleanupExpired" =>
          LET gone == DOMAIN sessions \ DOMAIN sessions'
          IN  /\ gone = {s \in DOMAIN sessions : sessions[s].expiresAt < now}
              /\ DOMAIN sessions' \subseteq DOMAIN sessions
              /\ \A s \in DOMAIN sessions' : sessions'[s] = sessions[s]
              /\ last'.count = Cardinality(gone)
              /\ cleanupExpiredSessions(sessions', now') = sessions'
              /\ (last.act = "CleanupExpired" => last'.count = 0)]_vars

\* a run deleted an expired session and kept one that expires later
C21_Witness ==
    /\ last.act = "CleanupExpired"
    /\ last.count = 1
    /\ \E s \in DOMAIN sessions : sessions[s].expiresAt > now

-----------------------------------------------------------------------------
(* Properties of failures *)

\* the exceptions AuthService and OAuthService construct themselves
TypedFailures ==
    {ErrInvalidEmail, ErrPasswordRequired, ErrInvalidCredentials, ErrInactive, ErrLocked,
     ErrInvalidRefresh, ErrReuse, ErrExpired, ErrSessionNotFound, ErrNoEmail,
     ErrConflict, ErrResetToken}

\* C23: whatever a cleanup job and the clock do between the steps of a
\* refreshToken call, the call ends in one of two ways: it returns a token
\* pair, having inserted exactly one session whose predecessor is revoked or
\* deleted; or it fails with an exception of the authentication kind, having
\* inserted nothing
C23_CleanupRaceConsistent ==
    [][last'.op = "refresh" /\ last'.out # PENDING =>
          LET added == DOMAIN sessions' \ DOMAIN sessions
          IN  \/ /\ last'.out = OK
                 /\ Cardinality(added) = 1
                 /\ \A n \in added :
                       LET old == sessions'[n].previousSessionId
                       IN  /\ old # NULL
                           /\ old \in DOMAIN sessions' => sessions'[old].isRevoked
              \/ /\ last'.out \in TypedFailures
                 /\ added = {}]_vars

\* C24: every failure of register, login, refreshToken, logout, logoutAll and
\* revokeSession is one of the exceptions the service constructs; the error of
\* a store call never reaches the caller as it is
C24_TypedFailures ==
    last.op \in {"register", "login", "refresh", "logout", "logoutAll", "revokeSession"}
        => last.out \in {OK, PENDING} \cup TypedFailures

-----------------------------------------------------------------------------
(* Properties of registration and of input validation *)

C26_MalformedTouchesNothing ==
    [][(/\ last'.act \in {"LoginFind", "RegisterFind"}
        /\ last'.out \in {ErrInvalidEmail, ErrPasswordRequired})
          => /\ last'.reads = {}
             /\ UNCHANGED <<users, sessions, nextId, issued, call>>]_vars

\* a login with a registered address and a blank password was rejected
C26_Witness ==
    /\ last.act = "LoginFind"
    /\ last.out = ErrPasswordRequired
    /\ last.reads = {}

-----------------------------------------------------------------------------
(* Properties of access tokens *)

-----------------------------------------------------------------------------
(* Properties of session deletion and of the returned user object *)

\* C28: a session row disappears only in a step of a cleanup job, and only
\* if it had expired or had been revoked for longer than the retention window
C28_OnlyCleanupDeletes ==
    [][\A s \in DOMAIN sessions \ DOMAIN sessions' :
          /\ last'.act \in {"CleanupExpired", "CleanupRevoked"}
          /\ \/ sessions[s].expiresAt < now
             \/ /\ sessions[s].isRevoked
                /\ sessions[s].updatedAt < now - retentionDays * DaySecs]_vars

\* C29: the user object returned with a token pair, by login, register,
\* refreshToken and the OAuth login, has no passwordHash field
C29_NoPasswordHash ==
    last.act = "CreateSession" => "passwordHash" \notin last.returned

-----------------------------------------------------------------------------
(* Properties of the password reset *)

\* C30: when resetPassword completes for a user, no session of that user is
\* non-revoked; and a refresh token issued before a completed reset of its
\* owner, presented afterwards, is never taken for rotation
C30_ResetRevokesSessions ==
    [][/\ last'.act = "ResetRevoke"
          => \A s \in DOMAIN sessions' :
                sessions'[s].userId = last'.user => sessions'[s].isRevoked
       /\ (last'.act = "RefreshFind" /\ last'.token \in resetBefore)
          => /\ last'.out \in {PENDING, ErrInvalidRefresh, ErrExpired, ErrInactive}
             /\ \A p \in Procs :
                   call[p] = Idle /\ call'[p] # Idle => call'[p].pc \in RejectingPcs]_vars

\* a refresh token issued before a completed reset was presented after it and
\* met the rejection of a revoked session
C30_Witness ==
    /\ last.act = "RefreshFind"
    /\ last.token \in resetBefore
    /\ last.out = PENDING
    /\ \E p \in Procs : call[p].pc = "refresh_reuse"

-----------------------------------------------------------------------------
(* Properties of single calls: rotation, logout, rejected refreshes *)

\* C31: a refresh token that login issued, presented while its session is
\* non-revoked, neither expiry has passed and the owner is active, is taken
\* for rotation; the rotation marks the old session revoked and then inserts
\* one session: non-revoked, of the same owner, with previousSessionId the
\* old session's id, the only non-revoked successor of the old session
C31_RoundTrip ==
    [][/\ \A t \in issued :
              (/\ last'.act = "RefreshFind"
               /\ last'.token = t.sessionId
               /\ t.sessionId \in DOMAIN sessions
               /\ sessions[t.sessionId].refreshTokenHash = hashToken(t)
               /\ ~sessions[t.sessionId].isRevoked
               /\ ~(sessions[t.sessionId].expiresAt < now)
               /\ jwtVerify(t, now)
               /\ users[sessions[t.sessionId].userId].isActive)
                  => /\ last'.out = PENDING
                     /\ \E p \in Procs : /\ call[p] = Idle
                                          /\ call'[p].pc = "refresh_tx_revoke"
                                          /\ call'[p].session.id = t.sessionId
       /\ \A p \in Procs :
              (call[p].pc = "refresh_tx_revoke" /\ call'[p].pc = "gen_create")
                  => /\ call'[p].prev = call[p].session.id
                     /\ sessions'[call'[p].prev].isRevoked
       /\ \A p \in Procs :
              (call[p].pc = "gen_create" /\ call[p].op = "refresh" /\ call'[p] = Idle)
                  => LET old == call[p].prev
                         new == last'.token
                     IN  /\ last'.out = OK
                         /\ DOMAIN sessions' \ DOMAIN sessions = {new}
                         /\ ~sessions'[new].isRevoked
                         /\ sessions'[new].previousSessionId = old
                         /\ sessions'[new].userId = call[p].session.userId
                         /\ old \in DOMAIN sessions' =>
                                /\ sessions'[old].isRevoked
                                /\ sessions'[old].userId = sessions'[new].userId
                         /\ {s \in DOMAIN sessions' :
                                /\ sessions'[s].previousSessionId = old
                                /\ ~sessions'[s].isRevoked} = {new}]_vars

\* a first presentation of a login's token returned a new pair: the old
\* session is revoked and its successor is live
C31_Witness ==
    /\ last.act = "CreateSession"
    /\ last.op = "refresh"
    /\ ~last.late
    /\ sessions[last.token].previousSessionId \in DOMAIN sessions
    /\ sessions[sessions[last.token].previousSessionId].isRevoked
    /\ sessions[sessions[last.token].previousSessionId].previousSessionId = NULL
    /\ ~sessions[last.token].isRevoked

\* C32: a logout without a token, or with a token whose hash no session
\* stores, completes without error and changes no session; a logout whose
\* token matches a session marks that session revoked and changes no other
\* row
C32_LogoutExact ==
    [][/\ \A t \in Presentable \cup {NoToken} :
              (/\ last'.act = "LogoutFind"
               /\ last'.token = t.sessionId
               /\ \/ t = NoToken
                  \/ ~\E s \in DOMAIN sessions :
                         sessions[s].refreshTokenHash = hashToken(t))
                  => /\ last'.out = OK
                     /\ call' = call
                     /\ sessions' = sessions
       /\ \A p \in Procs :
              (call[p].pc = "logout_revoke" /\ call'[p] = Idle /\ last'.out = OK)
                  => LET id == call[p].session.id
                     IN  /\ DOMAIN sessions' = DOMAIN sessions
                         /\ sessions[id].refreshTokenHash = hashToken(call[p].token)
                         /\ sessions'[id].isRevoked
                         /\ \A s \in DOMAIN sessions \ {id} : sessions'[s] = sessions[s]]_vars

\* a logout revoked its session and left another live session of the same
\* owner alone
C32_Witness ==
    /\ last.act = "LogoutRevoke"
    /\ last.out = OK
    /\ sessions[last.token].isRevoked
    /\ \E s \in DOMAIN sessions :
          /\ s # last.token
          /\ sessions[s].userId = last.user
          /\ ~sessions[s].isRevoked

\* C33: a refreshToken call for a token that no session stores, or whose
\* session is non-revoked and expired, or non-revoked, unexpired and owned by
\* an inactive account, ends at its lookup with the exception of that case
\* and leaves every session row and every account row as it was
C33_RejectedRefreshFrame ==
    [][\A t \in Presentable :
          (last'.act = "RefreshFind" /\ last'.token = t.sessionId) =>
              LET session == findByRefreshTokenHash(hashToken(t))
                  case == IF session.id = NULL THEN ErrInvalidRefresh
                          ELSE IF session.isRevoked THEN OK
                          ELSE IF session.expiresAt < now THEN ErrExpired
                          ELSE IF ~users[session.userId].isActive THEN ErrInactive
                          ELSE OK
              IN  case # OK => /\ last'.out = case
                               /\ call' = call
                               /\ sessions' = sessions
                               /\ users' = users
                               /\ nextId' = nextId /\ issued' = issued]_vars

\* the token of a live, unexpired session was refused because its owner is
\* inactive, and the session is still live
C33_Witness ==
    /\ last.act = "RefreshFind"
    /\ last.out = ErrInactive
    /\ last.token \in DOMAIN sessions
    /\ ~sessions[last.token].isRevoked

-----------------------------------------------------------------------------
(* Properties under concurrency *)

\* C34: from the completion of a revokeAllUserSessions(owner) until the
\* owner's next login, registration or OAuth login the owner has no
\* non-revoked session: no refreshToken call that read its session before
\* that completion inserts a session after it.  (Sessions become non-revoked
\* only by being inserted, and a refreshToken call that starts after the
\* completion finds none to rotate.)
C34_RevokeAllHolds ==
    (last.act = "CreateSession" /\ last.op = "refresh") => ~last.swept

\* C35: of two register calls that run concurrently with one address, one
\* creates the account and returns its token pair and the other fails with
\* the conflict exception: no two accounts share an address, and a register
\* call that does not go on to its token pair ends with the conflict
\* exception (or, for a malformed address, the validation exception)
C35_ConcurrentRegister ==
    /\ \A u, v \in DOMAIN users : users[u].email = users[v].email => u = v
    /\ last.op = "register" =>
           last.out \in {OK, PENDING, ErrConflict, ErrInvalidEmail}

-----------------------------------------------------------------------------
(* Properties of the lock: what it leaves alone and what ends it *)

\* C36: a well-formed login attempt on an active account whose lockedUntil is
\* in the future ends at the lock check, whatever the password: it is
\* rejected as locked with nothing left to do, every account row (so
\* failedLoginAttempts, lockedUntil and lastLoginAt) is as it was, and no
\* session is created, revoked or otherwise changed.
C36_LockedFrame ==
    [][(last'.act = "LoginFind" /\ last'.user # "none" /\ last'.valid
           /\ users[last'.user].isActive /\ isLocked(users[last'.user], now)) =>
          /\ last'.out = ErrLocked
          /\ call' = call
          /\ users' = users
          /\ sessions' = sessions
          /\ failsSeen' = failsSeen]_vars

\* a wrong password was rejected as locked on an account that has a session
C36_Witness ==
    /\ last.act = "LoginFind"
    /\ last.out = ErrLocked
    /\ ~last.pwOk
    /\ isLocked(users[last.user], now)
    /\ \E s \in DOMAIN sessions : sessions[s].userId = last.user

\* C37: the passing of lockedUntil resets nothing: as long as no login has
\* succeeded since the lock was set, failedLoginAttempts is at least the
\* threshold, also after lockedUntil has elapsed, and the next wrong
\* password, one attempt, raises the counter by one and sets lockedUntil to
\* fifteen minutes from then.
C37_ExpiryKeepsCounter ==
    [][/\ \A u \in UserIds :
              users[u].lockedUntil # NULL => users[u].failedLoginAttempts >= maxAttempts
       /\ (last'.act = "LoginFail" /\ users[last'.user].lockedUntil # NULL
              /\ ~isLocked(users[last'.user], now)) =>
              LET u == last'.user
              IN  /\ users'[u].failedLoginAttempts = users[u].failedLoginAttempts + 1
                  /\ users'[u].lockedUntil = now + lockDuration
                  /\ isLocked(users'[u], now')]_vars

\* a lock set fifteen minutes ago has elapsed and one more wrong password has
\* just set the next one
C37_Witness ==
    /\ last.act = "LoginFail"
    /\ now >= lockDuration
    /\ users[last.user].failedLoginAttempts = maxAttempts + 1
    /\ users[last.user].lockedUntil = now + lockDuration

\* C38: while lockedUntil of an active account is in the future only the
\* password login is refused: a refresh token of the account whose session is
\* neither revoked nor expired is taken for rotation, an OAuth login with the
\* account's address goes on to generateTokens, and each of the two ends by
\* inserting a new non-revoked session of the account.
C38_LockGatesPasswordOnly ==
    [][LET u == last'.user
       IN  (u # "none" /\ users[u].isActive /\ isLocked(users[u], now)) =>
              /\ (last'.act = "LoginFind" /\ last'.valid) => last'.out = ErrLocked
              /\ (last'.act = "RefreshFind" /\ last'.token \in DOMAIN sessions
                     /\ Live(last'.token)) =>
                     /\ last'.out = PENDING
                     /\ call'["p1"].pc = "refresh_tx_revoke"
              /\ last'.act = "OAuthFind" =>
                     /\ last'.out = PENDING
                     /\ call'["p1"].pc = "oauth_update"
              /\ last'.act = "OAuthUpdate" =>
                     /\ last'.out = PENDING
                     /\ call'["p1"].pc = "gen_create"
              /\ (last'.act = "CreateSession" /\ last'.op \in {"refresh", "oauth"}) =>
                     /\ last'.out = OK
                     /\ DOMAIN sessions' = DOMAIN sessions \cup {nextId}
                     /\ sessions'[nextId].userId = u
                     /\ ~sessions'[nextId].isRevoked
                     /\ isLocked(users'[u], now')]_vars

\* under one lock a rotation has inserted a session and an OAuth login has
\* just inserted another
C38_Witness ==
    /\ last.act = "CreateSession"
    /\ last.op = "oauth"
    /\ isLocked(users[last.user], now)
    /\ \E s \in DOMAIN sessions :
          /\ sessions[s].userId = last.user
          /\ sessions[s].previousSessionId # NULL
          /\ sessions[s].createdAt > users[last.user].lockedUntil - lockDuration

-----------------------------------------------------------------------------
(* Properties of the session table as a whole *)

\* C39: every session that exists and is named by the previousSessionId of
\* another session is revoked.
C39_PredecessorsRevoked ==
    \A s \in DOMAIN sessions :
        sessions[s].previousSessionId \in DOMAIN sessions
            => sessions[sessions[s].previousSessionId].isRevoked

\* a chain of two rotations, all three sessions in the table
C39_Witness ==
    \E s \in DOMAIN sessions :
        /\ sessions[s].previousSessionId \in DOMAIN sessions
        /\ sessions[sessions[s].previousSessionId].previousSessionId \in DOMAIN sessions
        /\ ~sessions[s].isRevoked

\* C40: a login, a registration or an OAuth login that succeeds inserts one
\* session, non-revoked and owned by the account, in its last step, and no
\* step of the call changes or removes a session that existed; so an account
\* that logs in again holds its earlier sessions, still non-revoked, next to
\* the new one.
C40_OneMoreSession ==
    [][last'.op \in {"login", "register", "oauth"} =>
          /\ \A s \in DOMAIN sessions :
                 s \in DOMAIN sessions' /\ sessions'[s] = sessions[s]
          /\ IF last'.act = "CreateSession"
             THEN /\ last'.out = OK
                  /\ DOMAIN sessions' = DOMAIN sessions \cup {nextId}
                  /\ nextId \notin DOMAIN sessions
                  /\ sessions'[nextId].userId = last'.user
                  /\ ~sessions'[nextId].isRevoked
             ELSE /\ last'.out # OK
                  /\ DOMAIN sessions' = DOMAIN sessions]_vars

\* a login has just given an account a third non-revoked session
C40_Witness ==
    /\ last.act = "CreateSession"
    /\ last.op = "login"
    /\ Cardinality({s \in DOMAIN sessions :
                       sessions[s].userId = last.user /\ ~sessions[s].isRevoked}) = 3

====
